---- MODULE Spec2Model ----
(***************************************************************************)
(* SFCC Content Updater: the OAuth token cache (AuthService), the OCAPI    *)
(* REST client with its retry policy (ContentAssetService), the editor     *)
(* buffer <-> content asset bookkeeping of the extension, the listing of   *)
(* the side bar (ContentTreeProvider) and ConfigService.                   *)
(*                                                                         *)
(* Every asynchronous function is cut at its suspension points (the grant  *)
(* POST, the data request, the retry delay); one action is one run of the  *)
(* event loop from one suspension point to the next.                       *)
(***************************************************************************)
EXTENDS Integers, Sequences, FiniteSets, TLC

VARIABLES now, accessToken, tokenExpiry, expiryGrant, grantSeq, freshNeeded,
          refilled,
          call, lastEvent,
          bufText, documentAssetMap, dirtyDocuments, backend, lastSynced,
          isLoading, refreshed,
          config, dwConfig, configEnv, configLoad, dwLoad, credentialService

authVars == <<accessToken, tokenExpiry, expiryGrant>>
histVars == <<freshNeeded, refilled>>
syncVars == <<bufText, documentAssetMap, dirtyDocuments, backend, lastSynced>>
treeVars == <<isLoading, refreshed>>
configVars ==
  <<config, dwConfig, configEnv, configLoad, dwLoad, credentialService>>
vars == <<now, accessToken, tokenExpiry, expiryGrant, grantSeq, freshNeeded,
          refilled,
          call, lastEvent, bufText, documentAssetMap, dirtyDocuments, backend,
          lastSynced, isLoading, refreshed,
          config, dwConfig, configEnv, configLoad, dwLoad, credentialService>>

(***************************************************************************)
(* Bounds of the model.                                                    *)
(***************************************************************************)
\* the clock stops here (seconds)
MaxTime == 240
\* the OAuth server issues at most this many tokens
MaxGrants == 3
\* seconds that may pass between two events
TickSteps == {60}
\* lifetimes (expires_in, seconds) the OAuth server may grant
ExpiresInChoices == {90, 120, 180, 300}
\* concurrently running asynchronous tasks
Calls == {"c1", "c2"}
\* content asset ids of the library
AssetIds == {"a1", "a2"}
\* editor buffers (document uris)
Uris == {"u1", "u2"}
\* buffer texts
Texts == {"", "x"}

(***************************************************************************)
(* Program constants.                                                      *)
(***************************************************************************)
\* accessToken: string | null = null
NullToken == 0
\* tokenExpiry: Date | null = null
NullExpiry == -1
\* isTokenValid: tokenExpiry.getTime() - 60000
BufferSeconds == 60
\* requestNewToken: response.data.expires_in - 60
SafetyMarginSeconds == 60
\* axiosRetry(..., { retries: 3 })
Retries == 3

(***************************************************************************)
(* Values exchanged with the network.                                      *)
(***************************************************************************)
\* markers for values that are not there
Absent == "<absent>"
NoUri == "<no uri>"
NoId == "<no id>"
NoFault == "<no fault>"
NoPayload == [a \in {} |-> ""]

\* error codes of an AxiosError that carries no response; axios reports the
\* expiry of its own `timeout` option as ECONNABORTED, the operating system's
\* connect timeout as ETIMEDOUT, a failed DNS lookup as ENOTFOUND
NetCodes == {"ENOTFOUND", "ETIMEDOUT", "ECONNABORTED", "ECONNRESET"}
\* what went wrong on the wire for each code
CauseOf(code) ==
  CASE code = "ENOTFOUND" -> "unreachable host"
    [] code = "ETIMEDOUT" -> "timeout"
    [] code = "ECONNABORTED" -> "timeout"
    [] OTHER -> "other"

FailStatuses == {400, 401, 403, 404, 409, 500, 503}

\* an AxiosError without a response
NetError(code) ==
  [axios |-> TRUE, response |-> FALSE, code |-> code, status |-> 0,
   fault |-> NoFault, errcode |-> "-", message |-> code]
\* an AxiosError for a response whose status is not 2xx
HttpError(status, fault, errcode) ==
  [axios |-> TRUE, response |-> TRUE,
   code |-> IF status >= 500 THEN "ERR_BAD_RESPONSE" ELSE "ERR_BAD_REQUEST",
   status |-> status, fault |-> fault, errcode |-> errcode,
   message |-> "Request failed"]
\* a plain Error (not an AxiosError), as thrown by handleAuthError
PlainError(message) ==
  [axios |-> FALSE, response |-> FALSE, code |-> "-", status |-> 0,
   fault |-> NoFault, errcode |-> "-", message |-> message]

\* failures of a data request
DataFailures ==
  {NetError(code) : code \in NetCodes} \cup
  {HttpError(s, f, "-") : s \in FailStatuses, f \in {NoFault, "fault message"}}
\* failures of the grant request
GrantFailures ==
  {NetError(code) : code \in NetCodes} \cup
  {HttpError(s, NoFault, e) : s \in {400, 403, 500, 503}, e \in {"-"}} \cup
  {HttpError(401, NoFault, e) : e \in {"-", "invalid_client"}}


(***************************************************************************)
(* Errors raised to callers.  The source raises `new Error(message)`; the  *)
(* error kind is the message template, `operation` the operation name the  *)
(* message carries and `detail` the wrapped message.                       *)
(***************************************************************************)
Err(kind, operation, detail) ==
  [kind |-> kind, operation |-> operation, detail |-> detail]
\* an error message that names no operation
NoOperation == <<>>
NoError == Err("-", NoOperation, "-")

\* error.message || 'Unknown error'
MessageOf(error) == IF error.message # "" THEN error.message ELSE "Unknown error"

(***************************************************************************)
(* AuthService                                                             *)
(***************************************************************************)
isTokenValidWideBuffer ==
  /\ accessToken # NullToken
  /\ tokenExpiry # NullExpiry
  /\ now < tokenExpiry - 2 * BufferSeconds

isTokenValid ==
  /\ accessToken # NullToken
  /\ tokenExpiry # NullExpiry
  /\ now < tokenExpiry - BufferSeconds

\* the expiry stored for a token granted now
StoredExpiryNoMargin(expires_in) == now + expires_in

StoredExpiry(expires_in) == now + (expires_in - SafetyMarginSeconds)

\* a grant response: the token it carries, when it arrived and its expires_in
\* (history of where the cached expiry came from, no field of the program)
Grant(tok, t0, expires_in) == [id |-> tok, t0 |-> t0, expires_in |-> expires_in]
NoGrant == Grant(NullToken, 0, 0)

\* requestNewToken stores the token and the expiry of one response, with no
\* await between the two assignments
requestNewTokenStoresTokenOnly(tok, expires_in) ==
  [accessToken |-> tok, tokenExpiry |-> tokenExpiry, expiryGrant |-> expiryGrant]

requestNewTokenStores(tok, expires_in) ==
  [accessToken |-> tok, tokenExpiry |-> StoredExpiry(expires_in),
   expiryGrant |-> Grant(tok, now, expires_in)]

handleAuthError(error) ==
  IF error.axios /\ error.code = "ENOTFOUND"
    THEN Err("NetworkError", NoOperation, "Cannot reach SFCC instance")
  ELSE IF error.axios /\ error.code = "ETIMEDOUT"
    THEN Err("TimeoutError", NoOperation, "Authentication request timed out")
  ELSE IF error.axios /\ error.response /\ error.status = 401
    THEN IF error.errcode = "invalid_client"
           THEN Err("InvalidCredentialsError", NoOperation, "Invalid client credentials")
           ELSE Err("InvalidCredentialsError", NoOperation, "Authentication failed (401)")
  ELSE IF error.axios /\ error.response /\ error.status = 403
    THEN Err("PermissionError", NoOperation, "OCAPI permissions not configured")
  ELSE IF error.axios /\ error.response /\ error.status >= 500
    THEN Err("BackendError", NoOperation, "SFCC server error")
  ELSE Err("UnknownAuthError", NoOperation, MessageOf(error))

clearTokenKeepsCache == [accessToken |-> accessToken, tokenExpiry |-> tokenExpiry]

clearToken == [accessToken |-> NullToken, tokenExpiry |-> NullExpiry]

\* the grant the expiry left by clearToken came from
GrantAfterClear ==
  IF clearToken.tokenExpiry = NullExpiry THEN NoGrant ELSE expiryGrant

(***************************************************************************)
(* ContentAssetService                                                     *)
(***************************************************************************)
DataOps == {"list", "get", "put", "patch", "delete", "search"}
ServiceOps == DataOps \cup {"getLibraryInfo", "testConnection"}
AuthOps == {"getAccessToken", "authTestConnection"}

\* the HTTP method each operation uses
MethodOf(op) ==
  CASE op \in {"list", "get", "getLibraryInfo", "testConnection"} -> "get"
    [] op = "put" -> "put"
    [] op = "patch" -> "patch"
    [] op = "delete" -> "delete"
    [] op = "search" -> "post"

\* the `operation` string handed to handleError
OperationName(op, id) ==
  CASE op \in {"list", "testConnection"} -> <<"list content assets">>
    [] op = "get" -> <<"get content asset", id>>
    [] op = "put" -> <<"create/replace content asset", id>>
    [] op = "patch" -> <<"update content asset", id>>
    [] op = "delete" -> <<"delete content asset", id>>
    [] op = "search" -> <<"search content assets for", id>>
    [] op = "getLibraryInfo" -> <<"get library information">>

\* axios-retry: no response, a code, not axios' own timeout, and a code
\* is-retry-allowed does not deny
isNetworkError(error) ==
  /\ ~error.response
  /\ error.code # "-"
  /\ error.code # "ECONNABORTED"
  /\ error.code \notin {"ENOTFOUND", "ENETUNREACH"}

\* axios-retry: a retryable error of a GET, HEAD, OPTIONS, PUT or DELETE
isIdempotentRequestError(error, method) ==
  /\ error.code # "ECONNABORTED"
  /\ (~error.response \/ (error.status >= 500 /\ error.status <= 599))
  /\ method \in {"get", "head", "options", "put", "delete"}

isNetworkOrIdempotentRequestError(error, method) ==
  isNetworkError(error) \/ isIdempotentRequestError(error, method)

\* error.response?.status ?? 0
StatusOrZero(error) == IF error.response THEN error.status ELSE 0

retryConditionAnyFailure(error, method) == TRUE

retryConditionNetworkOnly(error, method) ==
  isNetworkOrIdempotentRequestError(error, method)

retryCondition(error, method) ==
  \/ isNetworkOrIdempotentRequestError(error, method)
  \/ StatusOrZero(error) >= 500

\* axios-retry retries an AxiosError (it carries the request config) while
\* fewer than `retries` retries were made and retryCondition accepts it
shouldRetryOnceMore(error, method, retryCount) ==
  /\ error.axios
  /\ retryCount < Retries + 1
  /\ retryCondition(error, method)

shouldRetry(error, method, retryCount) ==
  /\ error.axios
  /\ retryCount < Retries
  /\ retryCondition(error, method)

handleErrorConflictAsUnknown(error, operation) ==
  IF error.axios /\ error.code = "ENOTFOUND"
    THEN Err("NetworkError", NoOperation, "Cannot reach SFCC instance")
  ELSE IF error.axios /\ error.code = "ETIMEDOUT"
    THEN Err("TimeoutError", operation, "Request timed out")
  ELSE IF error.axios /\ error.response /\ error.status = 401
    THEN Err("AuthenticationError", NoOperation, "Authentication failed")
  ELSE IF error.axios /\ error.response /\ error.status = 403
    THEN Err("PermissionError", operation, "Permission denied")
  ELSE IF error.axios /\ error.response /\ error.status = 404
    THEN Err("NotFoundError", NoOperation, "Resource not found")
  ELSE IF error.axios /\ error.response /\ error.status >= 500
    THEN Err("BackendError", NoOperation, "SFCC server error")
  ELSE IF error.axios /\ error.fault # NoFault
    THEN Err("UnknownOperationError", operation, error.fault)
  ELSE Err("UnknownOperationError", operation, MessageOf(error))

\* the error handleError throws; the 401 branch also clears the token
handleError(error, operation) ==
  IF error.axios /\ error.code = "ENOTFOUND"
    THEN Err("NetworkError", NoOperation, "Cannot reach SFCC instance")
  ELSE IF error.axios /\ error.code = "ETIMEDOUT"
    THEN Err("TimeoutError", operation, "Request timed out")
  ELSE IF error.axios /\ error.response /\ error.status = 401
    THEN Err("AuthenticationError", NoOperation, "Authentication failed")
  ELSE IF error.axios /\ error.response /\ error.status = 403
    THEN Err("PermissionError", operation, "Permission denied")
  ELSE IF error.axios /\ error.response /\ error.status = 404
    THEN Err("NotFoundError", NoOperation, "Resource not found")
  ELSE IF error.axios /\ error.response /\ error.status = 409
    THEN Err("ConflictError", NoOperation, "Conflict")
  ELSE IF error.axios /\ error.response /\ error.status >= 500
    THEN Err("BackendError", NoOperation, "SFCC server error")
  ELSE IF error.axios /\ error.fault # NoFault
    THEN Err("UnknownOperationError", operation, error.fault)
  ELSE Err("UnknownOperationError", operation, MessageOf(error))

\* handleError calls authService.clearToken() exactly in its 401 branch
ClearsToken(error) ==
  /\ error.axios
  /\ error.code \notin {"ENOTFOUND", "ETIMEDOUT"}
  /\ error.response
  /\ error.status = 401

\* the request interceptor: config.headers.Authorization = `Bearer ${token}`
\* with the token getAccessToken returned; a header is a <<scheme, token>> pair
NoAuthorization == <<>>

AuthorizationNotSet(token) == NoAuthorization

Authorization(token) == <<"Bearer", token>>

(***************************************************************************)
(* The backend and the records it serves.                                  *)
(***************************************************************************)
Bodies == Texts \cup {Absent}

\* the full record (select (**)) of an asset whose body is `body`
AssetRecord(id, body) == [id |-> id, c_body |-> body, online |-> TRUE]
\* `undefined`, what Map.get answers for a key without entry
NoAsset == [id |-> NoId, c_body |-> Absent, online |-> FALSE]
\* a buffer that does not exist
NoBuffer == "<no buffer>"

\* asset.c_body || ''
BodyOrEmpty(asset) == IF asset.c_body = Absent THEN "" ELSE asset.c_body

\* the body the backend holds once it has applied a PUT or PATCH payload
ApplyPayload(body, payload) ==
  IF "c_body" \in DOMAIN payload THEN payload["c_body"] ELSE body

\* the backend after it has served the request of call record cr
BackendAfter(cr) ==
  IF cr.id \notin AssetIds THEN backend
  ELSE IF cr.op \in {"put", "patch"}
    THEN [backend EXCEPT ![cr.id] = ApplyPayload(@, cr.payload)]
  ELSE backend

\* response.data of a 2xx answer to the request of call record cr
ResponseData(cr) ==
  IF cr.op \in {"get", "put", "patch"} /\ cr.id \in AssetIds
    THEN AssetRecord(cr.id, BackendAfter(cr)[cr.id])
    ELSE NoAsset

(***************************************************************************)
(* Configurations (SFCCConfig) and where ConfigService reads them from.    *)
(* A hostname is the sequence of its parts, so that includes('://') is     *)
(* computed; an empty sequence or an empty string is a missing (falsy)     *)
(* value.                                                                  *)
(***************************************************************************)
HostPart == "dev01-realm-customer.demandware.net"
NoHostname == <<>>
PlainHostname == <<HostPart>>
SchemeHostname == <<"https", "://", HostPart>>
HostnameChoices == {NoHostname, PlainHostname, SchemeHostname}

\* String.prototype.includes on a hostname
includes(hostname, part) == \E i \in 1..Len(hostname) : hostname[i] = part

\* an SFCCConfig object; isNull tells the value null apart from an object
SFCCConfig(hostname, username, password, clientId, secret, library, version) ==
  [isNull |-> FALSE, hostname |-> hostname, username |-> username,
   password |-> password, clientId |-> clientId,
   clientSecret |-> secret, contentLibrary |-> library,
   version |-> version]

\* private config: SFCCConfig | null = null
NoConfig ==
  [isNull |-> TRUE, hostname |-> NoHostname, username |-> "", password |-> "",
   clientId |-> "", clientSecret |-> "", contentLibrary |-> "", version |-> ""]

\* the four secrets of SecretStorage; "" is a secret that is not stored
Secrets(clientSecret) ==
  [username |-> "user", password |-> "key", clientId |-> "client",
   clientSecret |-> clientSecret]
NoCredentials ==
  [username |-> "", password |-> "", clientId |-> "", clientSecret |-> ""]

\* secrets.get answers undefined for a key that is not stored
Undefined == "<undefined>"

\* !value of JavaScript, value being a string or undefined
Falsy(value) == value = Undefined \/ value = ""

\* CredentialService.getCredentials on the secrets it has read: null unless
\* every one of them is a non-empty string
getCredentialsUnlessAllMissing(secrets) ==
  IF \A k \in DOMAIN secrets : Falsy(secrets[k]) THEN NoCredentials
  ELSE secrets

getCredentials(secrets) ==
  IF \E k \in DOMAIN secrets : Falsy(secrets[k]) THEN NoCredentials
  ELSE secrets

\* hasCredentials: credentials !== null
hasCredentials(credentials) == credentials # NoCredentials

\* CredentialService.KEYS of the service storing two secrets and of the one
\* storing four
KEYS2 == <<"clientId", "clientSecret">>
KEYS == <<"username", "password", "clientId", "clientSecret">>
KeyVersions == {KEYS2, KEYS}
KeySet(keys) == {keys[i] : i \in 1..Len(keys)}

\* an operation of CredentialService that is not running; a running one has
\* done pc - 1 of its awaited SecretStorage calls, `read` holds the secrets
\* getCredentials has read so far and `quiet` tells that no other task has
\* written to SecretStorage since the operation was called
IdleTask ==
  [op |-> "-", pc |-> 0, arg |-> NoCredentials, read |-> NoCredentials,
   quiet |-> TRUE]

\* what the last write to SecretStorage left: the credentials of a
\* storeCredentials or the empty store of a clearCredentials that ran with no
\* other writer in between, "unknown" otherwise
Settled(kind, credentials) == [kind |-> kind, credentials |-> credentials]
Unsettled == Settled("unknown", NoCredentials)

\* the service with its KEYS, no operation running
NewCredentialService(keys) ==
  [KEYS |-> keys, task |-> [c \in Calls |-> IdleTask], settled |-> Unsettled]

\* what JSON.parse makes of a dw.json whose hostname and clientSecret are as
\* given (a missing field is read as undefined)
DwJson(hostname, clientSecret, version) ==
  SFCCConfig(hostname, "user", "key", "client", clientSecret, "SiteGenesis",
             version)

\* createTemplateConfig: the template written to dw.json
DwTemplate ==
  SFCCConfig(PlainHostname, "your-business-manager-username",
             "your-access-key", "your-ocapi-client-id",
             "your-ocapi-client-secret", "SiteGenesis", "v23_2")

\* dw.json in the workspace: kind is "nofolder" (no workspace folder open),
\* "missing" (no such file), "invalid" (no JSON) or "json"
DwFile(kind, content) == [kind |-> kind, content |-> content]
DwFiles ==
  {DwFile(k, NoConfig) : k \in {"nofolder", "missing", "invalid"}}
  \cup {DwFile("json", DwJson(h, s, "")) :
          h \in HostnameChoices, s \in {"", "secret"}}

\* the surroundings ConfigService reads: the workspace settings
\* sfccContentUpdater.hostname and .contentLibrary, SecretStorage, dw.json
ConfigEnv(hostname, contentLibrary, secrets, dwFile) ==
  [hostname |-> hostname, contentLibrary |-> contentLibrary,
   secrets |-> secrets, dwFile |-> dwFile]
ConfigEnvs ==
  {ConfigEnv(h, l, Secrets(s), f) :
     h \in HostnameChoices, l \in {"", "SiteGenesis"}, s \in {"", "secret"},
     f \in DwFiles}

\* a fresh installation: nothing configured yet
InitialEnv == ConfigEnv(NoHostname, "", Secrets(""), DwFile("missing", NoConfig))

\* a loadConfig that is not running, resp. one waiting for getCredentials
\* with the settings it has read
IdleLoad ==
  [phase |-> "idle", hostname |-> NoHostname, contentLibrary |-> ""]

(***************************************************************************)
(* The requests of ContentAssetService. A URL is the sequence of the       *)
(* pieces the template literals put together.                              *)
(***************************************************************************)
\* a second host and library, and the OCAPI versions a configuration names
\* ("" is a configuration without version)
OtherHostPart == "dev01-x.demandware.net"
LibraryChoices == {"SiteGenesis", "shared_library"}
VersionChoices == {"", "v23_2", "v24_5"}

\* the configurations a ContentAssetService is constructed with
ServiceConfigs ==
  {SFCCConfig(<<h>>, "user", "key", "client", "secret", l, v) :
     h \in {HostPart, OtherHostPart}, l \in LibraryChoices, v \in VersionChoices}

\* config.version || 'v23_2'
VersionOrDefault(version) == IF version = "" THEN "v23_2" ELSE version

\* axios.create({ baseURL })
baseURL(cfg) ==
  <<"https://">> \o cfg.hostname \o <<"/s/-/dw/data/", VersionOrDefault(cfg.version)>>

\* const url = ... of each operation
RequestPath(cfg, op, id) ==
  IF op \in {"list", "testConnection"}
    THEN <<"/libraries/", cfg.contentLibrary, "/content">>
  ELSE IF op = "search"
    THEN <<"/libraries/", cfg.contentLibrary, "/content_search">>
  ELSE <<"/libraries/", cfg.contentLibrary, "/content/", id>>

\* axios joins baseURL and a relative url
RequestUrl(cfg, op, id) == baseURL(cfg) \o RequestPath(cfg, op, id)
NoUrl == <<>>

\* the query parameters of each operation
NoParams == [x \in {} |-> ""]
LightweightSelect == "(id,name,description,online,template,last_modified)"
FullSelect == "(**)"

RequestParamsAlwaysFull(op) ==
  IF op \in {"list", "testConnection"}
    THEN [count |-> 200, select |-> FullSelect]
  ELSE IF op = "get" THEN [select |-> FullSelect]
  ELSE NoParams

RequestParams(op) ==
  IF op \in {"list", "testConnection"}
    THEN [count |-> 200, select |-> LightweightSelect]
  ELSE IF op = "get" THEN [select |-> FullSelect]
  ELSE NoParams

\* the body of a 2xx answer to a list request: `data` may be missing
ListAnswer(hasData, data) == [hasData |-> hasData, data |-> data]

\* return response.data.data || []
ListData(response) == IF response.hasData THEN response.data ELSE <<>>

(***************************************************************************)
(* Asynchronous calls and the event each step leaves behind.               *)
(***************************************************************************)
\* phase: "idle", "awaitGrant" (grant POST in flight), "awaitHttp" (data
\* request in flight; `token` is what getAccessToken returned for the attempt,
\* `authorization` the header the request carries), "backoff" (retry delay
\* running)
IdleCall ==
  [phase |-> "idle", op |-> "-", cont |-> "-", uri |-> NoUri, id |-> NoId,
   payload |-> NoPayload, retryCount |-> 0, sent |-> 0, all5xx |-> TRUE,
   token |-> NullToken, authorization |-> NoAuthorization, data |-> NoAsset]

\* what the last step did; `result` is "pending", "retry", "returned",
\* "thrown", "cancelled" or "refused"; `failure` names the request whose
\* failure ended the operation, `ok` tells that a data request was answered
\* 2xx, `input` is the failure a request ended with, `error` the error thrown
\* to the caller, `flag` a boolean answer and `step` tells whether
\* getAccessToken ran for the first attempt of an operation ("invoke"), after
\* the user's answer (the answer given) or for a retry ("retry")
NoEvent ==
  [type |-> "none", call |-> "-", op |-> "-", cont |-> "-", uri |-> NoUri,
   id |-> NoId, payload |-> NoPayload, result |-> "-", failure |-> "none",
   ok |-> FALSE, step |-> "-",
   input |-> PlainError(""), error |-> NoError, value |-> NoAsset,
   flag |-> FALSE, retryCount |-> 0, sent |-> 0, all5xx |-> FALSE,
   hit |-> FALSE, granted |-> FALSE, after401 |-> FALSE, refilled |-> FALSE,
   token |-> NullToken, authorization |-> NoAuthorization, text |-> NoBuffer,
   method |-> "-", url |-> NoUrl, params |-> NoParams,
   config |-> NoConfig, assets |-> <<>>, children |-> <<>>,
   credentials |-> NoCredentials, quiet |-> FALSE]

\* the event of a step of call c whose record is cr
Ev(type, c, cr) ==
  [NoEvent EXCEPT !.type = type, !.call = c, !.op = cr.op, !.cont = cr.cont,
                  !.uri = cr.uri, !.id = cr.id, !.payload = cr.payload,
                  !.retryCount = cr.retryCount, !.sent = cr.sent,
                  !.all5xx = cr.all5xx, !.token = cr.token,
                  !.authorization = cr.authorization]

MapHas(m, k) == k \in DOMAIN m
MapGet(m, k) == IF k \in DOMAIN m THEN m[k] ELSE NoAsset
MapSet(m, k, v) == [x \in DOMAIN m \cup {k} |-> IF x = k THEN v ELSE m[x]]
MapDelete(m, k) == [x \in DOMAIN m \ {k} |-> m[x]]
EmptyMap == [x \in {} |-> NoAsset]

\* the state after construction, ConfigService holding cfg
InitOf(cfg, keys) ==
  /\ now = 0
  /\ accessToken = NullToken
  /\ tokenExpiry = NullExpiry
  /\ expiryGrant = NoGrant
  /\ grantSeq = 0
  /\ freshNeeded = FALSE
  /\ refilled = FALSE
  /\ call = [c \in Calls |-> IdleCall]
  /\ lastEvent = NoEvent
  /\ bufText = [u \in Uris |-> NoBuffer]
  /\ documentAssetMap = EmptyMap
  /\ dirtyDocuments = {}
  /\ backend = [i \in AssetIds |-> IF i = "a1" THEN "x" ELSE Absent]
  /\ lastSynced = [u \in Uris |-> NoBuffer]
  /\ isLoading = FALSE
  /\ refreshed = FALSE
  /\ config = cfg
  /\ dwConfig = NoConfig
  /\ configEnv = InitialEnv
  /\ configLoad = IdleLoad
  /\ dwLoad = "idle"
  /\ credentialService = NewCredentialService(keys)

InitWith(cfg) == InitOf(cfg, KEYS)

Init == InitWith(NoConfig)

(***************************************************************************)
(* getAccessToken as the request interceptor runs it before every attempt: *)
(* a cache hit sends the data request at once, a miss posts a grant.       *)
(***************************************************************************)
BeginAttempt(c, cr, step) ==
  /\ freshNeeded' = FALSE
  /\ UNCHANGED <<now, configVars, authVars, grantSeq, refilled>>
  /\ IF isTokenValid
       THEN /\ call' = [call EXCEPT ![c] =
                 [cr EXCEPT !.phase = "awaitHttp", !.token = accessToken,
                            !.authorization = Authorization(accessToken),
                            !.sent = @ + 1]]
            /\ lastEvent' =
                 [Ev("getAccessToken", c, cr) EXCEPT
                    !.step = step,
                    !.result = "pending", !.hit = TRUE,
                    !.after401 = freshNeeded, !.refilled = refilled,
                    !.token = accessToken,
                    !.authorization = Authorization(accessToken),
                    !.method = MethodOf(cr.op),
                    !.url = RequestUrl(config, cr.op, cr.id),
                    !.params = RequestParams(cr.op),
                    !.sent = cr.sent + 1]
       ELSE /\ call' = [call EXCEPT ![c] = [cr EXCEPT !.phase = "awaitGrant"]]
            /\ lastEvent' =
                 [Ev("getAccessToken", c, cr) EXCEPT
                    !.step = step,
                    !.result = "pending", !.granted = TRUE,
                    !.after401 = freshNeeded, !.refilled = refilled]

\* a client task calls one operation of ContentAssetService
Invoke(c, op, id, payload) ==
  /\ call[c].phase = "idle"
  /\ BeginAttempt(c, [IdleCall EXCEPT !.op = op, !.cont = "client",
                                      !.id = id, !.payload = payload],
                  "invoke")
  /\ UNCHANGED <<syncVars, treeVars>>

\* a client task calls AuthService.getAccessToken or .testConnection
AuthInvoke(c, op) ==
  /\ call[c].phase = "idle"
  /\ freshNeeded' = FALSE
  /\ UNCHANGED <<now, configVars, authVars, grantSeq, refilled, syncVars, treeVars>>
  /\ LET cr == [IdleCall EXCEPT !.op = op, !.cont = "client"] IN
     IF isTokenValid
       THEN /\ call' = call
            /\ lastEvent' =
                 [Ev("getAccessToken", c, cr) EXCEPT
                    !.step = "invoke",
                    !.result = "returned", !.hit = TRUE,
                    !.after401 = freshNeeded, !.refilled = refilled,
                    !.token = accessToken, !.flag = TRUE]
       ELSE /\ call' = [call EXCEPT ![c] = [cr EXCEPT !.phase = "awaitGrant"]]
            /\ lastEvent' =
                 [Ev("getAccessToken", c, cr) EXCEPT
                    !.step = "invoke",
                    !.result = "pending", !.granted = TRUE,
                    !.after401 = freshNeeded, !.refilled = refilled]

\* a client task calls AuthService.clearToken
ClearTokenCall ==
  /\ accessToken' = clearToken.accessToken
  /\ tokenExpiry' = clearToken.tokenExpiry
  /\ expiryGrant' = GrantAfterClear
  /\ lastEvent' = [NoEvent EXCEPT !.type = "clearToken"]
  /\ UNCHANGED <<now, configVars, grantSeq, histVars, call, syncVars, treeVars>>

\* time passes
Tick ==
  /\ \E d \in TickSteps : now + d <= MaxTime /\ now' = now + d
  /\ lastEvent' = NoEvent
  /\ UNCHANGED <<configVars, authVars, grantSeq, histVars, call, syncVars,
                 treeVars>>


(***************************************************************************)
(* What the extension's command handlers do once their request has been    *)
(* answered: each yields the new <<bufText, documentAssetMap,              *)
(* dirtyDocuments>>.                                                       *)
(***************************************************************************)
\* untitled documents take the first free name
UriOrder == <<"u1", "u2">>
FreeUris == {u \in Uris : bufText[u] = NoBuffer}
FreeUri ==
  UriOrder[CHOOSE i \in 1..Len(UriOrder) :
             /\ UriOrder[i] \in FreeUris
             /\ \A j \in 1..(i - 1) : UriOrder[j] \notin FreeUris]

SyncState(t, m, d) == [bufText |-> t, documentAssetMap |-> m, dirtyDocuments |-> d]
SyncUnchanged == SyncState(bufText, documentAssetMap, dirtyDocuments)

\* openContentAsset after getContentAsset returned fullAsset
openContentAssetDoneNoBinding(fullAsset) ==
  SyncState([bufText EXCEPT ![FreeUri] = BodyOrEmpty(fullAsset)],
            documentAssetMap, dirtyDocuments)

openContentAssetDone(fullAsset) ==
  LET uri == FreeUri IN
  SyncState([bufText EXCEPT ![uri] = BodyOrEmpty(fullAsset)],
            MapSet(documentAssetMap, uri, fullAsset),
            dirtyDocuments)

\* pushCurrentDocument after patchContentAsset returned
pushCurrentDocumentDone(uri) ==
  SyncState(bufText, documentAssetMap, dirtyDocuments \ {uri})

\* pullCurrentDocument after applyEdit replaced the text by freshAsset's body
pullCurrentDocumentDone(uri, freshAsset) ==
  SyncState(IF bufText[uri] = NoBuffer THEN bufText
            ELSE [bufText EXCEPT ![uri] = BodyOrEmpty(freshAsset)],
            MapSet(documentAssetMap, uri, freshAsset),
            dirtyDocuments \ {uri})

\* the handler's continuation after a successful request
AfterSuccess(cr, data) ==
  CASE cr.cont = "open" -> openContentAssetDone(data)
    [] cr.cont = "push" -> pushCurrentDocumentDone(cr.uri)
    [] OTHER -> SyncUnchanged

\* the text each buffer held when it was last bound (open), pushed or pulled
\* with success; the text of a push is the one getText() read when the push
\* started (history of the synchronisation, no field of the program)
SyncedAfter(cr, data) ==
  CASE cr.cont = "open" -> [lastSynced EXCEPT ![FreeUri] = BodyOrEmpty(data)]
    [] cr.cont = "push" /\ bufText[cr.uri] # NoBuffer
         -> [lastSynced EXCEPT ![cr.uri] = cr.payload.c_body]
    [] cr.cont = "pull" /\ bufText[cr.uri] # NoBuffer
         -> [lastSynced EXCEPT ![cr.uri] = BodyOrEmpty(data)]
    [] OTHER -> lastSynced

SetSync(st) ==
  /\ bufText' = st.bufText
  /\ documentAssetMap' = st.documentAssetMap
  /\ dirtyDocuments' = st.dirtyDocuments

\* the catch block of a command handler: it shows the error message and
\* touches neither the buffers nor the two collections
commandCatchMarksClean(cr) ==
  IF cr.cont \in {"push", "pull"}
    THEN SyncState(bufText, documentAssetMap, dirtyDocuments \ {cr.uri})
    ELSE SyncUnchanged

commandCatch(cr) == SyncUnchanged

(***************************************************************************)
(* Answers of the OAuth server.                                            *)
(***************************************************************************)
\* getChildren: finally { this.isLoading = false }, run when the list call of
\* the tree provider ends
TreeFinallyNotRun(cr) ==
  /\ isLoading' = isLoading
  /\ refreshed' = refreshed

TreeFinally(cr) ==
  /\ isLoading' = IF cr.cont = "tree" THEN FALSE ELSE isLoading
  /\ refreshed' = refreshed

\* ContentAssetService.testConnection: catch (error) { throw error }
testConnectionSwallows == FALSE

testConnectionRethrows == TRUE

\* AuthService.testConnection: catch (error) { return false }
authTestConnectionRethrows == FALSE

\* does the operation let a failure reach its caller
Rethrows(op) ==
  IF op = "authTestConnection" THEN authTestConnectionRethrows
  ELSE IF op = "testConnection" THEN testConnectionRethrows
  ELSE TRUE

\* requestNewToken: the grant POST answered 2xx
GrantSuccess(c, expires_in) ==
  /\ call[c].phase = "awaitGrant"
  /\ grantSeq < MaxGrants
  /\ LET cr == call[c]
         tok == grantSeq + 1 IN
     /\ grantSeq' = tok
     /\ accessToken' = requestNewTokenStores(tok, expires_in).accessToken
     /\ tokenExpiry' = requestNewTokenStores(tok, expires_in).tokenExpiry
     /\ expiryGrant' = requestNewTokenStores(tok, expires_in).expiryGrant
     /\ refilled' = TRUE
     /\ IF cr.op \in AuthOps
          THEN /\ call' = [call EXCEPT ![c] = IdleCall]
               /\ lastEvent' = [Ev("grantResponse", c, cr) EXCEPT
                                  !.result = "returned", !.token = tok,
                                  !.flag = TRUE]
          ELSE /\ call' = [call EXCEPT ![c] =
                    [cr EXCEPT !.phase = "awaitHttp", !.token = tok,
                               !.authorization = Authorization(tok),
                               !.sent = @ + 1]]
               /\ lastEvent' = [Ev("grantResponse", c, cr) EXCEPT
                                  !.result = "pending", !.token = tok,
                                  !.authorization = Authorization(tok),
                                  !.method = MethodOf(cr.op),
                                  !.url = RequestUrl(config, cr.op, cr.id),
                                  !.params = RequestParams(cr.op),
                                  !.sent = cr.sent + 1]
  /\ UNCHANGED <<now, configVars, freshNeeded, syncVars, treeVars>>

\* requestNewToken: catch (error) { this.handleAuthError(error); throw error }
\* ends the getAccessToken call; the grant POST goes through plain axios, which
\* has no retry handler
\* the cache that catch block leaves behind: it assigns no field
requestNewTokenFailedDropsCache ==
  [accessToken |-> NullToken, tokenExpiry |-> NullExpiry, expiryGrant |-> NoGrant]

requestNewTokenFailed ==
  [accessToken |-> accessToken, tokenExpiry |-> tokenExpiry,
   expiryGrant |-> expiryGrant]

requestNewTokenCatchPostsAgain(cr) == cr

requestNewTokenCatch(cr) == IdleCall

\* requestNewToken: the grant POST failed with `error`; handleAuthError
\* throws, the interceptor rejects with that plain Error, axios-retry passes
\* it on (it carries no request config) and the operation's catch block
\* hands it to handleError
GrantFailure(c, error) ==
  /\ call[c].phase = "awaitGrant"
  /\ LET cr == call[c]
         authError == handleAuthError(error) IN
     /\ call' = [call EXCEPT ![c] = requestNewTokenCatch(cr)]
     /\ lastEvent' =
          IF cr.op = "getAccessToken"
            THEN [Ev("grantResponse", c, cr) EXCEPT
                    !.result = "thrown", !.failure = "grant",
                    !.input = error, !.error = authError]
          ELSE IF cr.op = "authTestConnection"
            THEN [Ev("grantResponse", c, cr) EXCEPT
                    !.result = IF Rethrows(cr.op) THEN "thrown" ELSE "returned",
                    !.failure = "grant", !.input = error,
                    !.error = IF Rethrows(cr.op) THEN authError ELSE NoError]
          ELSE [Ev("grantResponse", c, cr) EXCEPT
                  !.result = IF Rethrows(cr.op) THEN "thrown" ELSE "returned",
                  !.failure = "grant", !.input = error,
                  !.error = IF Rethrows(cr.op)
                              THEN handleError(PlainError(authError.detail),
                                               OperationName(cr.op, cr.id))
                              ELSE NoError]
     /\ TreeFinally(cr)
     /\ SetSync(commandCatch(cr))
  /\ accessToken' = requestNewTokenFailed.accessToken
  /\ tokenExpiry' = requestNewTokenFailed.tokenExpiry
  /\ expiryGrant' = requestNewTokenFailed.expiryGrant
  /\ UNCHANGED <<now, configVars, grantSeq, histVars, backend, lastSynced>>

(***************************************************************************)
(* Answers of the data API.                                                *)
(***************************************************************************)
\* the data request answered 2xx
HttpSuccess(c) ==
  /\ call[c].phase = "awaitHttp"
  /\ LET cr == call[c]
         data == ResponseData(cr) IN
     /\ cr.cont # "tree"
     /\ cr.cont = "open" => FreeUris # {}
     /\ backend' = BackendAfter(cr)
     /\ IF cr.cont = "pull"
          THEN /\ call' = [call EXCEPT ![c] =
                    [cr EXCEPT !.phase = "awaitEdit", !.data = data]]
               /\ lastEvent' = [Ev("httpResponse", c, cr) EXCEPT
                                  !.result = "pending", !.ok = TRUE,
                                  !.value = data]
               /\ SetSync(SyncUnchanged)
               /\ lastSynced' = lastSynced
          ELSE /\ call' = [call EXCEPT ![c] = IdleCall]
               /\ lastEvent' = [Ev("httpResponse", c, cr) EXCEPT
                                  !.result = "returned", !.ok = TRUE,
                                  !.value = data, !.flag = TRUE,
                                  !.text = IF cr.uri \in Uris
                                             THEN bufText[cr.uri] ELSE NoBuffer]
               /\ SetSync(AfterSuccess(cr, data))
               /\ lastSynced' = SyncedAfter(cr, data)
  /\ UNCHANGED <<now, configVars, authVars, grantSeq, histVars, treeVars>>

\* the data request failed and axios-retry schedules another attempt
HttpFailureRetried(c, error) ==
  /\ call[c].phase = "awaitHttp"
  /\ LET cr == call[c] IN
     /\ shouldRetry(error, MethodOf(cr.op), cr.retryCount)
     /\ call' = [call EXCEPT ![c] =
          [cr EXCEPT !.phase = "backoff", !.retryCount = @ + 1,
                     !.all5xx = @ /\ StatusOrZero(error) >= 500]]
     /\ lastEvent' = [Ev("httpResponse", c, cr) EXCEPT
                        !.result = "retry", !.input = error]
  /\ UNCHANGED <<now, configVars, authVars, grantSeq, histVars, syncVars, treeVars>>

\* the data request failed for good: the operation's catch block runs
\* handleError, which throws (after clearToken on a 401)
HttpFailureFinal(c, error) ==
  /\ call[c].phase = "awaitHttp"
  /\ LET cr == call[c] IN
     /\ ~shouldRetry(error, MethodOf(cr.op), cr.retryCount)
     /\ call' = [call EXCEPT ![c] = IdleCall]
     /\ lastEvent' =
          [Ev("httpResponse", c, cr) EXCEPT
             !.result = IF Rethrows(cr.op) THEN "thrown" ELSE "returned",
             !.failure = "http", !.input = error,
             !.all5xx = cr.all5xx /\ StatusOrZero(error) >= 500,
             !.error = IF Rethrows(cr.op)
                         THEN handleError(error, OperationName(cr.op, cr.id))
                         ELSE NoError]
     /\ IF ClearsToken(error)
          THEN /\ accessToken' = clearToken.accessToken
               /\ tokenExpiry' = clearToken.tokenExpiry
               /\ expiryGrant' = GrantAfterClear
               /\ freshNeeded' = TRUE
               /\ refilled' = FALSE
          ELSE UNCHANGED <<authVars, histVars>>
     /\ TreeFinally(cr)
     /\ SetSync(commandCatch(cr))
  /\ UNCHANGED <<now, configVars, grantSeq, backend, lastSynced>>

\* the retry delay has run out: axios-retry re-issues the request, so the
\* interceptor asks for a token again
RetryFire(c) ==
  /\ call[c].phase = "backoff"
  /\ BeginAttempt(c, call[c], "retry")
  /\ UNCHANGED <<syncVars, treeVars>>

(***************************************************************************)
(* The REST client and the token manager under client tasks.               *)
(***************************************************************************)
\* the arguments a client passes to an operation
ClientId(op) == IF op \in {"get", "put", "patch", "delete"} THEN "a1"
                ELSE IF op = "search" THEN "query" ELSE NoId
ClientPayload(op) == IF op \in {"put", "patch"} THEN [c_body |-> "x"] ELSE NoPayload

\* one client task calling every operation, one after the other
Next ==
  \/ \E op \in ServiceOps : Invoke("c1", op, ClientId(op), ClientPayload(op))
  \/ \E op \in AuthOps : AuthInvoke("c1", op)
  \/ ClearTokenCall
  \/ Tick
  \/ \E e \in ExpiresInChoices : GrantSuccess("c1", e)
  \/ \E error \in GrantFailures : GrantFailure("c1", error)
  \/ HttpSuccess("c1")
  \/ \E error \in DataFailures : HttpFailureRetried("c1", error)
  \/ \E error \in DataFailures : HttpFailureFinal("c1", error)
  \/ RetryFire("c1")

Spec == Init /\ [][Next]_vars

\* the data operations under fairness: every request in flight is answered
\* or runs into its timeout (30 s for a data request, 10 s for the grant
\* POST; axios reports both as ECONNABORTED), and a retry delay runs out
FairDataFailures ==
  {NetError("ECONNABORTED"), HttpError(503, NoFault, "-"),
   HttpError(404, NoFault, "-")}
FairGrantFailures == {NetError("ECONNABORTED")}
FairExpiresIn == {90, 300}

Answered(c) ==
  \/ \E e \in FairExpiresIn : GrantSuccess(c, e)
  \/ \E error \in FairGrantFailures : GrantFailure(c, error)
  \/ HttpSuccess(c)
  \/ \E error \in FairDataFailures : HttpFailureRetried(c, error)
  \/ \E error \in FairDataFailures : HttpFailureFinal(c, error)

NextFair ==
  \/ \E op \in DataOps : Invoke("c1", op, ClientId(op), ClientPayload(op))
  \/ Tick
  \/ Answered("c1")
  \/ RetryFire("c1")

SpecFair ==
  Init /\ [][NextFair]_vars /\ WF_vars(Answered("c1")) /\ WF_vars(RetryFire("c1"))

(***************************************************************************)
(* Two client tasks running side by side on the same AuthService.          *)
(***************************************************************************)
ConcurrentOps == {"get"}
ConcurrentDataFailures ==
  {HttpError(401, NoFault, "-"), HttpError(503, NoFault, "-")}
ConcurrentGrantFailures == {HttpError(401, NoFault, "invalid_client")}

NextConcurrent ==
  \/ \E c \in Calls, op \in ConcurrentOps :
       Invoke(c, op, ClientId(op), ClientPayload(op))
  \/ \E c \in Calls : AuthInvoke(c, "getAccessToken")
  \/ ClearTokenCall
  \/ Tick
  \/ \E c \in Calls, e \in ExpiresInChoices : GrantSuccess(c, e)
  \/ \E c \in Calls, error \in ConcurrentGrantFailures : GrantFailure(c, error)
  \/ \E c \in Calls : HttpSuccess(c)
  \/ \E c \in Calls, error \in ConcurrentDataFailures : HttpFailureRetried(c, error)
  \/ \E c \in Calls, error \in ConcurrentDataFailures : HttpFailureFinal(c, error)
  \/ \E c \in Calls : RetryFire(c)

SpecConcurrent == Init /\ [][NextConcurrent]_vars


(***************************************************************************)
(* The extension: editor buffers bound to content assets.                  *)
(***************************************************************************)
\* !asset, for the asset documentAssetMap.get(uri) answered
IsUntrackedNever(asset) == FALSE

IsUntracked(asset) == asset = NoAsset

\* the updates pushCurrentDocument hands to patchContentAsset
PushPayloadWholeAsset(asset, currentContent) ==
  [asset EXCEPT !.c_body = currentContent]

PushPayload(asset, currentContent) == [c_body |-> currentContent]

\* a command was turned away before any request was made
Refuse(type, uri) ==
  /\ lastEvent' = [NoEvent EXCEPT !.type = type, !.uri = uri,
                                  !.result = "refused"]
  /\ UNCHANGED <<now, configVars, authVars, grantSeq, histVars, call, syncVars,
                 treeVars>>

\* command sfccContentUpdater.openAsset
openContentAsset(c, id) ==
  /\ call[c].phase = "idle"
  /\ BeginAttempt(c, [IdleCall EXCEPT !.op = "get", !.cont = "open", !.id = id],
                  "invoke")
  /\ UNCHANGED <<syncVars, treeVars>>

\* command sfccContentUpdater.push, the active editor showing buffer uri
pushCurrentDocument(c, uri) ==
  /\ call[c].phase = "idle"
  /\ bufText[uri] # NoBuffer
  /\ LET asset == MapGet(documentAssetMap, uri) IN
     IF IsUntracked(asset)
       THEN Refuse("push", uri)
       ELSE /\ BeginAttempt(c, [IdleCall EXCEPT
                                  !.op = "patch", !.cont = "push",
                                  !.uri = uri, !.id = asset.id,
                                  !.payload = PushPayload(asset, bufText[uri])],
                            "invoke")
            /\ UNCHANGED <<syncVars, treeVars>>

\* command sfccContentUpdater.pull, the active editor showing buffer uri; a
\* dirty buffer first asks the user and waits for the answer
pullCurrentDocument(c, uri) ==
  /\ call[c].phase = "idle"
  /\ bufText[uri] # NoBuffer
  /\ LET asset == MapGet(documentAssetMap, uri)
         cr == [IdleCall EXCEPT !.op = "get", !.cont = "pull", !.uri = uri,
                                !.id = asset.id] IN
     IF IsUntracked(asset)
       THEN Refuse("pull", uri)
     ELSE IF uri \in dirtyDocuments
       THEN /\ call' = [call EXCEPT ![c] = [cr EXCEPT !.phase = "awaitConfirm"]]
            /\ lastEvent' = [Ev("pull", c, cr) EXCEPT !.step = "invoke",
                                                      !.result = "pending"]
            /\ UNCHANGED <<now, configVars, authVars, grantSeq, histVars,
                           syncVars, treeVars>>
     ELSE /\ BeginAttempt(c, cr, "invoke")
          /\ UNCHANGED <<syncVars, treeVars>>

\* what showWarningMessage can resolve to: one of the two buttons, or
\* undefined when the warning is dismissed
Dismissed == "<dismissed>"
PullAnswers == {"Pull Anyway", "Cancel", Dismissed}

\* if (answer !== 'Pull Anyway') return
pullConfirmedAnyAnswer(answer) == TRUE

pullConfirmed(answer) == answer = "Pull Anyway"

\* the user answers the overwrite warning
PullAnswer(c, answer) ==
  /\ call[c].phase = "awaitConfirm"
  /\ IF pullConfirmed(answer)
       THEN /\ BeginAttempt(c, call[c], answer)
            /\ UNCHANGED <<syncVars, treeVars>>
       ELSE /\ call' = [call EXCEPT ![c] = IdleCall]
            /\ lastEvent' = [Ev("pull", c, call[c]) EXCEPT
                               !.step = answer, !.result = "cancelled"]
            /\ UNCHANGED <<now, configVars, authVars, grantSeq, histVars,
                           syncVars, treeVars>>

\* applyEdit has replaced the buffer text; pullCurrentDocument records the
\* fresh asset and clears the dirty mark
ApplyEdit(c) ==
  /\ call[c].phase = "awaitEdit"
  /\ SetSync(pullCurrentDocumentDone(call[c].uri, call[c].data))
  /\ lastSynced' = SyncedAfter(call[c], call[c].data)
  /\ call' = [call EXCEPT ![c] = IdleCall]
  /\ lastEvent' = [Ev("pull", c, call[c]) EXCEPT
                     !.result = "returned", !.value = call[c].data]
  /\ UNCHANGED <<now, configVars, authVars, grantSeq, histVars, backend,
                 treeVars>>

\* the onDidChangeTextDocument handler: if (documentAssetMap.has(uri))
\* dirtyDocuments.add(uri)
onDidChangeTextDocumentAnyBuffer(uri) == dirtyDocuments \cup {uri}

onDidChangeTextDocument(uri) ==
  IF MapHas(documentAssetMap, uri) THEN dirtyDocuments \cup {uri}
  ELSE dirtyDocuments

\* the user edits buffer uri and the change listener runs
Change(uri, text) ==
  /\ bufText[uri] # NoBuffer
  /\ text # bufText[uri]
  /\ bufText' = [bufText EXCEPT ![uri] = text]
  /\ dirtyDocuments' = onDidChangeTextDocument(uri)
  /\ lastEvent' = [NoEvent EXCEPT !.type = "change", !.uri = uri]
  /\ UNCHANGED <<now, configVars, authVars, grantSeq, histVars, call,
                 documentAssetMap, backend, lastSynced, treeVars>>

\* the onDidCloseTextDocument handler run on binding map m and dirty set d:
\* documentAssetMap.delete(uri); dirtyDocuments.delete(uri)
onDidCloseTextDocumentToggles(m, d, uri) ==
  [documentAssetMap |-> MapDelete(m, uri),
   dirtyDocuments |-> IF uri \in d THEN d \ {uri} ELSE d \cup {uri}]

onDidCloseTextDocument(m, d, uri) ==
  [documentAssetMap |-> MapDelete(m, uri), dirtyDocuments |-> d \ {uri}]

\* buffer uri is closed and the close listener runs
Close(uri) ==
  /\ bufText[uri] # NoBuffer
  /\ bufText' = [bufText EXCEPT ![uri] = NoBuffer]
  /\ LET closed == onDidCloseTextDocument(documentAssetMap, dirtyDocuments, uri) IN
     /\ documentAssetMap' = closed.documentAssetMap
     /\ dirtyDocuments' = closed.dirtyDocuments
  /\ lastSynced' = [lastSynced EXCEPT ![uri] = NoBuffer]
  /\ lastEvent' = [NoEvent EXCEPT !.type = "close", !.uri = uri,
                                  !.flag = /\ MapHas(documentAssetMap, uri)
                                           /\ uri \in dirtyDocuments]
  /\ UNCHANGED <<now, configVars, authVars, grantSeq, histVars, call, backend,
                 treeVars>>

\* the user opens an empty untitled document that is no content asset
NewPlainBuffer ==
  /\ FreeUris # {}
  /\ bufText' = [bufText EXCEPT ![FreeUri] = ""]
  /\ lastEvent' = [NoEvent EXCEPT !.type = "new", !.uri = FreeUri]
  /\ UNCHANGED <<now, configVars, authVars, grantSeq, histVars, call,
                 documentAssetMap, dirtyDocuments, backend, lastSynced, treeVars>>

SyncDataFailures == {HttpError(404, NoFault, "-")}
SyncGrantFailures == {NetError("ENOTFOUND")}
SyncExpiresIn == {300}

\* one command at a time, interleaved with the editor's events
NextSync ==
  \/ \E id \in AssetIds : openContentAsset("c1", id)
  \/ \E uri \in Uris : pushCurrentDocument("c1", uri)
  \/ \E uri \in Uris : pullCurrentDocument("c1", uri)
  \/ \E answer \in PullAnswers : PullAnswer("c1", answer)
  \/ ApplyEdit("c1")
  \/ \E uri \in Uris, text \in Texts : Change(uri, text)
  \/ \E uri \in Uris : Close(uri)
  \/ NewPlainBuffer
  \/ \E e \in SyncExpiresIn : GrantSuccess("c1", e)
  \/ \E error \in SyncGrantFailures : GrantFailure("c1", error)
  \/ HttpSuccess("c1")
  \/ \E error \in SyncDataFailures : HttpFailureFinal("c1", error)

SpecSync == Init /\ [][NextSync]_vars

(***************************************************************************)
(* Pushing edited buffers over a backend that answers some requests 503,   *)
(* so that axios-retry sends the PATCH again.                              *)
(***************************************************************************)
PushDataFailures == {HttpError(503, NoFault, "-")}

NextPush ==
  \/ \E id \in AssetIds : openContentAsset("c1", id)
  \/ \E uri \in Uris : pushCurrentDocument("c1", uri)
  \/ \E uri \in Uris, text \in Texts : Change(uri, text)
  \/ \E uri \in Uris : Close(uri)
  \/ \E e \in SyncExpiresIn : GrantSuccess("c1", e)
  \/ \E error \in SyncGrantFailures : GrantFailure("c1", error)
  \/ HttpSuccess("c1")
  \/ \E error \in PushDataFailures : HttpFailureRetried("c1", error)
  \/ \E error \in PushDataFailures : HttpFailureFinal("c1", error)
  \/ RetryFire("c1")

SpecPush == Init /\ [][NextPush]_vars

(***************************************************************************)
(* Two commands at a time: the push and pull commands can be invoked again *)
(* while an earlier one is suspended on its request.                       *)
(***************************************************************************)
NextOverlap ==
  \/ openContentAsset("c1", "a1")
  \/ \E c \in Calls, uri \in Uris : pushCurrentDocument(c, uri)
  \/ \E c \in Calls, uri \in Uris : pullCurrentDocument(c, uri)
  \/ \E c \in Calls, answer \in PullAnswers : PullAnswer(c, answer)
  \/ \E c \in Calls : ApplyEdit(c)
  \/ \E uri \in Uris, text \in Texts : Change(uri, text)
  \/ \E c \in Calls, e \in SyncExpiresIn : GrantSuccess(c, e)
  \/ \E c \in Calls : HttpSuccess(c)
  \/ \E c \in Calls, error \in SyncDataFailures : HttpFailureFinal(c, error)

SpecOverlap == Init /\ [][NextOverlap]_vars

(***************************************************************************)
(* ContentTreeProvider: the listing shown in the side bar.                 *)
(***************************************************************************)
\* ids and display names (name.default) of the listed assets; a name that is
\* Absent or "" makes the comparator fall back to the id
ListedIds == {"a", "b", "c"}
ListedNames == {Absent, "", "Alpha", "alpha", "Beta"}
ContentAssetMetadata(id, name) == [id |-> id, name |-> name]

\* String.prototype.toLowerCase on the ids and names above
toLowerCase(str) ==
  CASE str = "Alpha" -> "alpha"
    [] str = "Beta" -> "beta"
    [] OTHER -> str

\* String.prototype.localeCompare on lower-case strings: their place in the
\* alphabet decides
CollationOrder == <<"", "a", "alpha", "b", "beta", "c">>
Rank(str) == CHOOSE i \in 1..Len(CollationOrder) : CollationOrder[i] = str
localeCompare(x, y) ==
  IF Rank(x) < Rank(y) THEN -1 ELSE IF Rank(x) > Rank(y) THEN 1 ELSE 0

\* (a.name?.default || a.id).toLowerCase()
SortKeyIdOnly(a) == toLowerCase(a.id)

SortKey(a) ==
  toLowerCase(IF a.name = Absent \/ a.name = "" THEN a.id ELSE a.name)

\* the comparator handed to assets.sort
compare(a, b) == localeCompare(SortKey(a), SortKey(b))

\* Array.prototype.sort is a stable sort: an element goes behind every
\* element that does not compare greater than it
InsertBeforeEqual(sorted, a) ==
  LET before == {i \in 1..Len(sorted) : compare(sorted[i], a) < 0}
      n == Cardinality(before) IN
  SubSeq(sorted, 1, n) \o <<a>> \o SubSeq(sorted, n + 1, Len(sorted))

Insert(sorted, a) ==
  LET before == {i \in 1..Len(sorted) : compare(sorted[i], a) <= 0}
      n == Cardinality(before) IN
  SubSeq(sorted, 1, n) \o <<a>> \o SubSeq(sorted, n + 1, Len(sorted))

RECURSIVE sort(_)
sort(assets) ==
  IF assets = <<>> THEN <<>>
  ELSE Insert(sort(SubSeq(assets, 1, Len(assets) - 1)), assets[Len(assets)])

\* the answers the backend may give to the list request: up to three assets
\* with different ids, in any order
ListedAssets == {ContentAssetMetadata(i, n) : i \in ListedIds, n \in ListedNames}
ListResponses ==
  {<<>>}
  \cup {<<a>> : a \in ListedAssets}
  \cup {<<a, b>> : a, b \in ListedAssets}
  \cup {<<a, b, c>> : a, b, c \in ListedAssets}
DistinctIds(assets) ==
  \A i, j \in 1..Len(assets) : i # j => assets[i].id # assets[j].id

\* if (this.isLoading) in getChildren
LoadInProgressNever == FALSE

LoadInProgress == isLoading

\* VS Code asks for the root's children: getChildren(undefined)
getChildren(c) ==
  /\ call[c].phase = "idle"
  /\ refreshed' = FALSE
  /\ IF LoadInProgress
       THEN /\ lastEvent' = [NoEvent EXCEPT !.type = "getChildren", !.call = c,
                                            !.cont = "tree",
                                            !.result = "returned",
                                            !.flag = refreshed]
            /\ UNCHANGED <<now, configVars, authVars, grantSeq, histVars, call,
                           syncVars, isLoading>>
       ELSE /\ isLoading' = TRUE
            /\ BeginAttempt(c, [IdleCall EXCEPT !.op = "list", !.cont = "tree"],
                            "invoke")
            /\ UNCHANGED syncVars

\* refresh(): this._onDidChangeTreeData.fire(), after which VS Code asks for
\* the children again
refresh ==
  /\ refreshed' = TRUE
  /\ lastEvent' = [NoEvent EXCEPT !.type = "refresh", !.flag = isLoading]
  /\ UNCHANGED <<now, configVars, authVars, grantSeq, histVars, call, syncVars,
                 isLoading>>

\* the list request of getChildren is answered 2xx with `assets`: they are
\* sorted and returned, and the finally block resets isLoading
getChildrenLoaded(c, assets) ==
  /\ call[c].phase = "awaitHttp"
  /\ call[c].cont = "tree"
  /\ DistinctIds(assets)
  /\ call' = [call EXCEPT ![c] = IdleCall]
  /\ lastEvent' = [Ev("httpResponse", c, call[c]) EXCEPT
                     !.result = "returned", !.ok = TRUE, !.assets = assets,
                     !.children = sort(assets)]
  /\ TreeFinally(call[c])
  /\ UNCHANGED <<now, configVars, authVars, grantSeq, histVars, syncVars>>

TreeDataFailures == {HttpError(503, NoFault, "-")}
TreeGrantFailures == {NetError("ENOTFOUND")}

\* VS Code asking for the listing from two places at once (the view becoming
\* visible, a refresh), over a backend that may fail
NextTree ==
  \/ \E c \in Calls : getChildren(c)
  \/ refresh
  \/ \E c \in Calls, e \in SyncExpiresIn : GrantSuccess(c, e)
  \/ \E c \in Calls, error \in TreeGrantFailures : GrantFailure(c, error)
  \/ \E c \in Calls, assets \in ListResponses : getChildrenLoaded(c, assets)
  \/ \E c \in Calls, error \in TreeDataFailures : HttpFailureRetried(c, error)
  \/ \E c \in Calls, error \in TreeDataFailures : HttpFailureFinal(c, error)
  \/ \E c \in Calls : RetryFire(c)

SpecTree == Init /\ [][NextTree]_vars

\* the listing when every request is answered or times out and every retry
\* delay runs out; the answers hold at most one entry
FairListResponses == {<<>>} \cup {<<a>> : a \in ListedAssets}

TreeAnswered(c) ==
  \/ \E e \in SyncExpiresIn : GrantSuccess(c, e)
  \/ \E error \in TreeGrantFailures : GrantFailure(c, error)
  \/ \E assets \in FairListResponses : getChildrenLoaded(c, assets)
  \/ \E error \in TreeDataFailures : HttpFailureRetried(c, error)
  \/ \E error \in TreeDataFailures : HttpFailureFinal(c, error)

NextTreeFair ==
  \/ \E c \in Calls : getChildren(c)
  \/ refresh
  \/ \E c \in Calls : TreeAnswered(c)
  \/ \E c \in Calls : RetryFire(c)

SpecTreeFair ==
  /\ Init /\ [][NextTreeFair]_vars
  /\ \A c \in Calls : WF_vars(TreeAnswered(c)) /\ WF_vars(RetryFire(c))

(***************************************************************************)
(* ConfigService.  The repository holds two versions of the class: the one *)
(* of src/services/config.service.ts reads the workspace settings and      *)
(* SecretStorage and keeps its result in `config`; the earlier one reads   *)
(* dw.json and keeps its result in `dwConfig`.                             *)
(***************************************************************************)
\* what a load ends with: the configuration returned, or an error thrown
Loaded(cfg) == [thrown |-> FALSE, config |-> cfg]
LoadError == [thrown |-> TRUE, config |-> NoConfig]

\* workspaceConfig.get('contentLibrary') || 'shared_library'
ContentLibraryOrDefault(contentLibrary) ==
  IF contentLibrary = "" THEN "shared_library" ELSE contentLibrary

\* loadConfig (settings) from its validation on, with the hostname and the
\* library it has read and the credentials getCredentials answered
loadConfigValidated(hostname, contentLibrary, credentials) ==
  IF hostname = NoHostname \/ credentials = NoCredentials
    THEN LoadError
  ELSE IF includes(hostname, "://")
    THEN LoadError
  ELSE Loaded(SFCCConfig(hostname, credentials.username, credentials.password,
                         credentials.clientId, credentials.clientSecret,
                         contentLibrary, "v23_2"))

\* validateConfig (dw.json): throws on a missing required field or on a
\* hostname with a protocol, else fills in the default version
validateConfig(cfg) ==
  IF \/ cfg.hostname = NoHostname
     \/ cfg.username = "" \/ cfg.password = ""
     \/ cfg.clientId = "" \/ cfg.clientSecret = ""
     \/ cfg.contentLibrary = ""
    THEN LoadError
  ELSE IF includes(cfg.hostname, "://")
    THEN LoadError
  ELSE Loaded([cfg EXCEPT !.version = IF @ = "" THEN "v23_2" ELSE @])

\* getConfig(): throws when nothing is held
getConfig(cfg) == IF cfg.isNull THEN LoadError ELSE Loaded(cfg)

\* isConfigLoaded(): this.config !== null
isConfigLoaded(cfg) == ~cfg.isNull

\* the event a finished load leaves behind
LoadEvent(type, outcome) ==
  [NoEvent EXCEPT !.type = type,
                  !.result = IF outcome.thrown THEN "thrown" ELSE "returned",
                  !.config = outcome.config]

NonConfigVars ==
  <<now, authVars, grantSeq, histVars, call, syncVars, treeVars>>

\* loadConfig() or, with reload, reloadConfig() of the settings version, up
\* to its await of getCredentials
loadConfig(reload) ==
  /\ configLoad.phase = "idle"
  /\ config' = IF reload THEN NoConfig ELSE config
  /\ configLoad' =
       [phase |-> "awaitCredentials", hostname |-> configEnv.hostname,
        contentLibrary |-> ContentLibraryOrDefault(configEnv.contentLibrary)]
  /\ lastEvent' = [NoEvent EXCEPT
                     !.type = IF reload THEN "reloadConfig" ELSE "loadConfig",
                     !.result = "pending"]
  /\ UNCHANGED <<NonConfigVars, dwConfig, configEnv, dwLoad,
                 credentialService>>

\* getCredentials has answered: loadConfig validates, stores and returns
loadConfigResume ==
  /\ configLoad.phase = "awaitCredentials"
  /\ LET outcome == loadConfigValidated(configLoad.hostname,
                                        configLoad.contentLibrary,
                                        getCredentials(configEnv.secrets)) IN
     /\ config' = IF outcome.thrown THEN config ELSE outcome.config
     /\ lastEvent' = LoadEvent("loadConfig", outcome)
  /\ configLoad' = IdleLoad
  /\ UNCHANGED <<NonConfigVars, dwConfig, configEnv, dwLoad,
                 credentialService>>

\* loadConfig() or, with reload, reloadConfig() of the dw.json version, up
\* to its end or to the question whether to create a template
dwLoadConfig(reload) ==
  /\ dwLoad = "idle"
  /\ LET held == IF reload THEN NoConfig ELSE dwConfig
         file == configEnv.dwFile
         outcome == validateConfig(file.content) IN
     CASE file.kind = "nofolder" ->
            /\ dwConfig' = held
            /\ dwLoad' = dwLoad
            /\ lastEvent' = LoadEvent("dwLoadConfig", LoadError)
       [] file.kind = "missing" ->
            /\ dwConfig' = held
            /\ dwLoad' = "awaitAnswer"
            /\ lastEvent' = [NoEvent EXCEPT !.type = "dwLoadConfig",
                                            !.result = "pending"]
       [] file.kind = "invalid" ->
            /\ dwConfig' = held
            /\ dwLoad' = dwLoad
            /\ lastEvent' = LoadEvent("dwLoadConfig", LoadError)
       [] OTHER ->
            \* this.config = JSON.parse(configContent), then validateConfig
            /\ dwConfig' = IF outcome.thrown THEN file.content
                                              ELSE outcome.config
            /\ dwLoad' = dwLoad
            /\ lastEvent' = LoadEvent("dwLoadConfig", outcome)
  /\ UNCHANGED <<NonConfigVars, config, configEnv, configLoad,
                 credentialService>>

\* the user answers 'dw.json not found ... create a template?': the load
\* throws either way, after createTemplateConfig has written the template
dwLoadAnswer(answer) ==
  /\ dwLoad = "awaitAnswer"
  /\ dwLoad' = "idle"
  /\ configEnv' = IF answer = "Create Template"
                    THEN [configEnv EXCEPT !.dwFile = DwFile("json", DwTemplate)]
                    ELSE configEnv
  /\ lastEvent' = LoadEvent("dwLoadConfig", LoadError)
  /\ UNCHANGED <<NonConfigVars, config, dwConfig, configLoad,
                 credentialService>>

\* the user changes the settings, the stored secrets or dw.json
ConfigEnvChange(env) ==
  /\ env # configEnv
  /\ configEnv' = env
  /\ lastEvent' = [NoEvent EXCEPT !.type = "configEnvChange"]
  /\ UNCHANGED <<NonConfigVars, config, dwConfig, configLoad, dwLoad,
                 credentialService>>

NextConfig ==
  \/ \E reload \in BOOLEAN : loadConfig(reload)
  \/ loadConfigResume
  \/ \E reload \in BOOLEAN : dwLoadConfig(reload)
  \/ \E answer \in {"Create Template", "Cancel"} : dwLoadAnswer(answer)
  \/ \E env \in ConfigEnvs : ConfigEnvChange(env)

SpecConfig == Init /\ [][NextConfig]_vars

(***************************************************************************)
(* ContentAssetService constructed with a loaded configuration: the        *)
(* requests list and get send, and what list makes of the answer.          *)
(***************************************************************************)
\* the answers to a list request: no data field, or up to two entries
ListAnswers ==
  {ListAnswer(FALSE, <<>>), ListAnswer(TRUE, <<>>)}
  \cup {ListAnswer(TRUE, <<a>>) : a \in ListedAssets}
  \cup {ListAnswer(TRUE, <<a, b>>) : a, b \in ListedAssets}

\* listContentAssets: the list request answered 2xx with `response`
listContentAssetsDone(c, response) ==
  /\ call[c].phase = "awaitHttp"
  /\ call[c].op = "list"
  /\ call[c].cont = "client"
  /\ call' = [call EXCEPT ![c] = IdleCall]
  /\ lastEvent' = [Ev("httpResponse", c, call[c]) EXCEPT
                     !.result = "returned", !.ok = TRUE,
                     !.flag = response.hasData, !.assets = response.data,
                     !.children = ListData(response)]
  /\ UNCHANGED <<now, configVars, authVars, grantSeq, histVars, syncVars, treeVars>>

InitRequest == \E cfg \in ServiceConfigs : InitWith(cfg)

NextRequest ==
  \/ Invoke("c1", "list", NoId, NoPayload)
  \/ \E id \in AssetIds : Invoke("c1", "get", id, NoPayload)
  \/ \E e \in SyncExpiresIn : GrantSuccess("c1", e)
  \/ \E error \in SyncGrantFailures : GrantFailure("c1", error)
  \/ call["c1"].op = "get" /\ HttpSuccess("c1")
  \/ \E response \in ListAnswers : listContentAssetsDone("c1", response)
  \/ \E error \in SyncDataFailures : HttpFailureFinal("c1", error)

SpecRequest == InitRequest /\ [][NextRequest]_vars

(***************************************************************************)
(* CredentialService over SecretStorage: every operation is a sequence of  *)
(* awaited SecretStorage calls, one per key, in the order of KEYS; other   *)
(* tasks run between two of them.                                          *)
(***************************************************************************)
CredentialOps == {"getCredentials", "hasCredentials", "storeCredentials",
                  "clearCredentials"}
Writes(op) == op \in {"storeCredentials", "clearCredentials"}

\* the credentials handed to storeCredentials: every field set, or one of
\* them the empty string
CredentialChoices(keys) ==
  {[k \in KeySet(keys) |-> v] : v \in {"a", "b"}}
  \cup {[k \in KeySet(keys) |-> IF k = e THEN "" ELSE "a"] : e \in KeySet(keys)}

\* the secrets stored under the keys of the service
StoredSecrets(secrets, keys) == [k \in KeySet(keys) |-> secrets[k]]

\* an operation of CredentialService is called and runs up to its first
\* await
credentialCall(c, op, credentials) ==
  /\ credentialService.task[c].op = "-"
  /\ credentialService' =
       [credentialService EXCEPT
          !.task[c] = [op |-> op, pc |-> 1, arg |-> credentials,
                       read |-> [k \in KeySet(credentialService.KEYS) |->
                                   Undefined],
                       quiet |-> TRUE]]
  /\ lastEvent' = [NoEvent EXCEPT !.type = "credentialCall", !.call = c,
                                  !.op = op, !.credentials = credentials]
  /\ UNCHANGED <<NonConfigVars, config, dwConfig, configEnv, configLoad, dwLoad>>

\* the SecretStorage call the operation of task c waits for takes effect:
\* secrets.get, secrets.store or secrets.delete of the next key; after the
\* last key the operation returns
credentialStep(c) ==
  /\ credentialService.task[c].op # "-"
  /\ LET t == credentialService.task[c]
         keys == credentialService.KEYS
         key == keys[t.pc]
         last == t.pc = Len(keys)
         read == IF Writes(t.op) THEN t.read
                 ELSE [t.read EXCEPT ![key] = configEnv.secrets[key]]
         credentials == IF Writes(t.op) THEN t.arg ELSE getCredentials(read)
         settled ==
           IF ~Writes(t.op) THEN credentialService.settled
           ELSE IF last /\ t.quiet
             THEN IF t.op = "storeCredentials" THEN Settled("stored", t.arg)
                  ELSE Settled("cleared", NoCredentials)
           ELSE Unsettled IN
     /\ configEnv' =
          IF t.op = "storeCredentials"
            THEN [configEnv EXCEPT !.secrets[key] = t.arg[key]]
          ELSE IF t.op = "clearCredentials"
            THEN [configEnv EXCEPT !.secrets[key] = Undefined]
          ELSE configEnv
     /\ credentialService' =
          [credentialService EXCEPT
             !.settled = settled,
             !.task = [d \in Calls |->
                         IF d = c
                           THEN IF last THEN IdleTask
                                ELSE [t EXCEPT !.pc = @ + 1, !.read = read]
                         ELSE IF Writes(t.op) /\ @[d].op # "-"
                           THEN [@[d] EXCEPT !.quiet = FALSE]
                         ELSE @[d]]]
     /\ lastEvent' =
          IF last
            THEN [NoEvent EXCEPT !.type = "credentialReturn", !.call = c,
                                 !.op = t.op, !.result = "returned",
                                 !.credentials = credentials,
                                 !.flag = hasCredentials(credentials),
                                 !.quiet = t.quiet]
            ELSE [NoEvent EXCEPT !.type = "credentialStep", !.call = c,
                                 !.op = t.op]
  /\ UNCHANGED <<NonConfigVars, config, dwConfig, configLoad, dwLoad>>

InitCredentials == \E keys \in KeyVersions : InitOf(NoConfig, keys)

NextCredentials ==
  \/ \E c \in Calls : credentialCall(c, "getCredentials", NoCredentials)
  \/ \E c \in Calls : credentialCall(c, "hasCredentials", NoCredentials)
  \/ \E c \in Calls : credentialCall(c, "clearCredentials", NoCredentials)
  \/ \E c \in Calls, credentials \in CredentialChoices(credentialService.KEYS) :
       credentialCall(c, "storeCredentials", credentials)
  \/ \E c \in Calls : credentialStep(c)

SpecCredentials == InitCredentials /\ [][NextCredentials]_vars

(***************************************************************************)
(* Properties.                                                             *)
(***************************************************************************)

\* C1: whenever getAccessToken runs while a token is cached and
\* now < tokenExpiry - 60s, it answers with the cached token and posts no
\* grant request.
CacheHitIssuesNoGrant ==
  (/\ lastEvent.type = "getAccessToken"
   /\ accessToken # NullToken
   /\ tokenExpiry # NullExpiry
   /\ now < tokenExpiry - 60)
  => /\ lastEvent.hit
     /\ lastEvent.token = accessToken
     /\ ~lastEvent.granted
     /\ call[lastEvent.call].phase # "awaitGrant"

\* a direct getAccessToken call answered from the cache after time has passed
CacheHitWitness ==
  /\ lastEvent.type = "getAccessToken"
  /\ lastEvent.op = "getAccessToken"
  /\ lastEvent.hit
  /\ lastEvent.result = "returned"
  /\ now >= 60
  /\ now < tokenExpiry - 60


\* C2 (as stated): a data operation that fails with a 401 response leaves
\* no cached token, and the getAccessToken call that follows it posts a
\* fresh grant request.
NextCallAfter401PostsGrant ==
  /\ (/\ lastEvent.type = "httpResponse"
      /\ lastEvent.failure = "http"
      /\ lastEvent.input.response
      /\ lastEvent.input.status = 401)
     => (accessToken = NullToken /\ tokenExpiry = NullExpiry)
  /\ (lastEvent.type = "getAccessToken" /\ lastEvent.after401)
     => (lastEvent.granted /\ ~lastEvent.hit)

\* C2 (amended): a data operation that fails with a 401 response leaves no
\* cached token, and the getAccessToken call that follows it posts a fresh
\* grant request unless a grant request that was already in flight when the
\* 401 arrived has been answered in between and has filled the cache again.
After401CacheClearedAndRefetched ==
  /\ (/\ lastEvent.type = "httpResponse"
      /\ lastEvent.failure = "http"
      /\ lastEvent.input.response
      /\ lastEvent.input.status = 401)
     => (accessToken = NullToken /\ tokenExpiry = NullExpiry)
  /\ (/\ lastEvent.type = "getAccessToken"
      /\ lastEvent.after401
      /\ ~lastEvent.refilled)
     => (lastEvent.granted /\ ~lastEvent.hit)
  /\ (/\ lastEvent.type = "getAccessToken"
      /\ lastEvent.after401
      /\ lastEvent.hit)
     => lastEvent.refilled

\* the first getAccessToken call after a 401 posts a grant request
FreshGrantAfter401Witness ==
  /\ lastEvent.type = "getAccessToken"
  /\ lastEvent.after401
  /\ ~lastEvent.refilled
  /\ lastEvent.granted
  /\ grantSeq >= 1

\* the operation ended with the answer of a data request, all of whose
\* attempts were answered 5xx
EndedAllFiveXX ==
  /\ lastEvent.type = "httpResponse"
  /\ lastEvent.failure = "http"
  /\ lastEvent.op \in DataOps
  /\ lastEvent.all5xx

\* C3 (as stated): an invocation all of whose HTTP attempts are answered 5xx
\* makes at most 3 attempts and then raises BackendError.
AtMostThreeAttemptsThenBackendError ==
  /\ \A c \in Calls :
       (call[c].op \in DataOps /\ call[c].all5xx) => call[c].sent <= 3
  /\ EndedAllFiveXX
     => /\ lastEvent.sent <= 3
        /\ lastEvent.result = "thrown"
        /\ lastEvent.error.kind = "BackendError"

\* C3 (amended): an invocation all of whose attempts are sent and answered
\* 5xx makes 4 HTTP attempts in total, the first one and 3 retries, and then
\* raises BackendError.
FourAttemptsThenBackendError ==
  /\ \A c \in Calls :
       (call[c].op \in DataOps /\ call[c].all5xx) => call[c].sent <= 4
  /\ EndedAllFiveXX
     => /\ lastEvent.sent = 4
        /\ lastEvent.retryCount = 3
        /\ lastEvent.result = "thrown"
        /\ lastEvent.error.kind = "BackendError"

\* a PATCH answered 503 four times ends in BackendError
FourAttemptsWitness ==
  /\ EndedAllFiveXX
  /\ lastEvent.op = "patch"
  /\ lastEvent.input.status = 503
  /\ lastEvent.sent = 4
  /\ lastEvent.error.kind = "BackendError"

\* C4: an attempt answered 5xx while retries are left is followed by another
\* attempt, and a 2xx answer to a later attempt makes the operation return
\* that answer's data without raising an error (503 then 200 succeeds).
RetriedThenSucceeds ==
  /\ (/\ lastEvent.type = "httpResponse"
      /\ lastEvent.op \in DataOps
      /\ lastEvent.input.response
      /\ lastEvent.input.status >= 500
      /\ lastEvent.retryCount < 3)
     => /\ lastEvent.result = "retry"
        /\ call[lastEvent.call].phase = "backoff"
  /\ (/\ lastEvent.type = "httpResponse"
      /\ lastEvent.op \in DataOps
      /\ lastEvent.cont = "client"
      /\ lastEvent.ok
      /\ lastEvent.retryCount >= 1)
     => /\ lastEvent.result = "returned"
        /\ lastEvent.error = NoError
        /\ lastEvent.sent = lastEvent.retryCount + 1
        /\ lastEvent.op \in {"get", "put", "patch"}
           => lastEvent.value = AssetRecord(lastEvent.id, backend[lastEvent.id])

\* a PATCH answered 503 and then 200 on the 2nd attempt returns the record
RetriedThenSucceedsWitness ==
  /\ lastEvent.type = "httpResponse"
  /\ lastEvent.op = "patch"
  /\ lastEvent.ok
  /\ lastEvent.all5xx
  /\ lastEvent.retryCount = 1
  /\ lastEvent.sent = 2
  /\ lastEvent.result = "returned"

\* a response with a 4xx status
IsClientErrorResponse(input) ==
  input.response /\ input.status >= 400 /\ input.status < 500

\* C5: a response with a non-transient status (401, 403, 404, 409 or any
\* other 4xx) is never retried: the operation ends with an error at once,
\* after exactly one HTTP attempt when it is the first answer.
ClientErrorsNeverRetried ==
  (/\ lastEvent.type = "httpResponse"
   /\ IsClientErrorResponse(lastEvent.input))
  => /\ lastEvent.result = "thrown"
     /\ lastEvent.error.kind # "-"
     /\ call[lastEvent.call].phase = "idle"
     /\ lastEvent.sent = lastEvent.retryCount + 1
     /\ lastEvent.retryCount = 0 => lastEvent.sent = 1

\* a first answer 409 to a PUT ends the operation after one attempt
ClientErrorWitness ==
  /\ lastEvent.type = "httpResponse"
  /\ lastEvent.op = "put"
  /\ lastEvent.input.response
  /\ lastEvent.input.status = 409
  /\ lastEvent.result = "thrown"
  /\ lastEvent.sent = 1

\* the data operation ended with the failure of a data request
EndedWithHttpFailure ==
  /\ lastEvent.type = "httpResponse"
  /\ lastEvent.failure = "http"
  /\ lastEvent.result = "thrown"

\* the error kind C6 names for a failing outcome
ClaimedKind(input) ==
  IF input.response /\ input.status = 401 THEN "AuthenticationError"
  ELSE IF input.response /\ input.status = 403 THEN "PermissionError"
  ELSE IF input.response /\ input.status = 404 THEN "NotFoundError"
  ELSE IF input.response /\ input.status = 409 THEN "ConflictError"
  ELSE IF input.response /\ input.status >= 500 THEN "BackendError"
  ELSE "UnknownOperationError"

\* the error kind by status, after the two error codes handleError looks at
AmendedKind(input) ==
  IF ~input.response /\ input.code = "ENOTFOUND" THEN "NetworkError"
  ELSE IF ~input.response /\ input.code = "ETIMEDOUT" THEN "TimeoutError"
  ELSE ClaimedKind(input)

\* what the raised error carries besides its kind
ErrorCarriesContext(e, input, operation) ==
  /\ e.kind \in {"PermissionError", "TimeoutError"} => e.operation = operation
  /\ e.kind = "UnknownOperationError"
     => /\ e.operation = operation
        /\ input.fault # NoFault => e.detail = input.fault
        /\ input.fault = NoFault => e.detail = input.message

\* C6 (as stated): the raised error kind is a function of the final failing
\* outcome: 401 -> AuthenticationError, 403 -> PermissionError with the
\* operation name, 404 -> NotFoundError, 409 -> ConflictError, >= 500 ->
\* BackendError, anything else -> UnknownOperationError wrapping the fault
\* message.
ErrorKindByStatusOnly ==
  EndedWithHttpFailure
  => /\ lastEvent.error.kind = ClaimedKind(lastEvent.input)
     /\ ErrorCarriesContext(lastEvent.error, lastEvent.input,
                            OperationName(lastEvent.op, lastEvent.id))

\* C6 (amended): as stated, except that a failure without response whose
\* error code is ENOTFOUND raises NetworkError and one whose code is
\* ETIMEDOUT raises TimeoutError; only the remaining outcomes raise
\* UnknownOperationError, wrapping the fault message when there is one.
ErrorKindByCodeThenStatus ==
  EndedWithHttpFailure
  => /\ lastEvent.error.kind = AmendedKind(lastEvent.input)
     /\ ErrorCarriesContext(lastEvent.error, lastEvent.input,
                            OperationName(lastEvent.op, lastEvent.id))

\* a 409 raised ConflictError
ConflictErrorWitness ==
  /\ EndedWithHttpFailure
  /\ lastEvent.input.status = 409
  /\ lastEvent.error.kind = "ConflictError"


\* the error kind C7 names for a failed grant request
ClaimedAuthKind(input) ==
  IF ~input.response
    THEN CASE CauseOf(input.code) = "unreachable host" -> "NetworkError"
           [] CauseOf(input.code) = "timeout" -> "TimeoutError"
           [] OTHER -> "UnknownAuthError"
  ELSE IF input.status = 401 THEN "InvalidCredentialsError"
  ELSE IF input.status = 403 THEN "PermissionError"
  ELSE IF input.status >= 500 THEN "BackendError"
  ELSE "UnknownAuthError"

\* C7: a failed grant request surfaces from getAccessToken as NetworkError
\* (unreachable host), TimeoutError (request timeout),
\* InvalidCredentialsError (401), PermissionError (403), BackendError
\* (>= 500) and UnknownAuthError otherwise.
GrantFailureClassified ==
  (/\ lastEvent.type = "grantResponse"
   /\ lastEvent.op = "getAccessToken"
   /\ lastEvent.failure = "grant")
  => /\ lastEvent.result = "thrown"
     /\ lastEvent.error.kind = ClaimedAuthKind(lastEvent.input)

\* an operation ended because its grant or data request failed
EndedWithFailure ==
  /\ lastEvent.type \in {"grantResponse", "httpResponse"}
  /\ lastEvent.failure # "none"

\* C8 (as stated): an operation of AuthService or ContentAssetService whose
\* grant or data request fails ends by raising an error, never by returning
\* a value.
FailuresAlwaysRaised ==
  EndedWithFailure
  => /\ lastEvent.result = "thrown"
     /\ lastEvent.error.kind # "-"

\* C8 (amended): an operation whose grant or data request fails ends by
\* raising an error, except AuthService.testConnection, which reports the
\* failed grant by returning false.
FailuresRaisedExceptAuthTest ==
  EndedWithFailure
  => IF lastEvent.op = "authTestConnection"
       THEN /\ lastEvent.result = "returned"
            /\ lastEvent.flag = FALSE
       ELSE /\ lastEvent.result = "thrown"
            /\ lastEvent.error.kind # "-"

\* ContentAssetService.testConnection raised the error of its failed request
TestConnectionRaisesWitness ==
  /\ EndedWithFailure
  /\ lastEvent.op = "testConnection"
  /\ lastEvent.failure = "http"
  /\ lastEvent.result = "thrown"
  /\ lastEvent.error.kind = "PermissionError"

\* pushCurrentDocument has just been invoked and has started its PATCH call
PushStarted ==
  /\ lastEvent.type = "getAccessToken"
  /\ lastEvent.cont = "push"
  /\ lastEvent.step = "invoke"

\* C9: every PATCH request of a push carries a payload whose only attribute
\* is c_body, set to the text the buffer holds when the push is invoked, and
\* is addressed to the id of the record bound to the buffer; the payload and
\* the id stay the same for every attempt of the push.
PushSendsOnlyBody ==
  /\ [](\A c \in Calls :
          call[c].cont = "push"
          => /\ call[c].op = "patch"
             /\ DOMAIN call[c].payload = {"c_body"})
  /\ [](PushStarted
          => /\ MapHas(documentAssetMap, lastEvent.uri)
             /\ lastEvent.id = documentAssetMap[lastEvent.uri].id
             /\ lastEvent.payload = [c_body |-> bufText[lastEvent.uri]]
             /\ call[lastEvent.call].payload = lastEvent.payload
             /\ call[lastEvent.call].id = lastEvent.id)
  /\ [][\A c \in Calls :
          (call[c].cont = "push" /\ call'[c].cont = "push")
          => /\ call'[c].payload = call[c].payload
             /\ call'[c].id = call[c].id]_vars

\* the PATCH of a push on an edited buffer is in flight for the 2nd time
PushRequestWitness ==
  \E c \in Calls :
    /\ call[c].cont = "push"
    /\ call[c].phase = "awaitHttp"
    /\ call[c].sent = 2
    /\ call[c].payload = [c_body |-> ""]
    /\ call[c].uri \in dirtyDocuments
    /\ documentAssetMap[call[c].uri].c_body = "x"

\* C10: a push or pull on a buffer without binding is refused: it starts no
\* call (no request is issued) and leaves the binding map, the dirty set,
\* the buffer texts and the backend as they were; every push or pull that
\* does start a call was invoked on a bound buffer.
UnboundPushPullRefused ==
  /\ [](\A c \in Calls :
          call[c].cont \in {"push", "pull"} => call[c].id \in AssetIds)
  /\ []((lastEvent.cont \in {"push", "pull"} /\ lastEvent.step = "invoke")
        => /\ MapHas(documentAssetMap, lastEvent.uri)
           /\ lastEvent.id = documentAssetMap[lastEvent.uri].id)
  /\ []((lastEvent.type \in {"push", "pull"} /\ lastEvent.result = "refused")
        => ~MapHas(documentAssetMap, lastEvent.uri))
  /\ [][(lastEvent'.result = "refused" /\ lastEvent' # lastEvent)
        => /\ ~MapHas(documentAssetMap, lastEvent'.uri)
           /\ UNCHANGED <<call, bufText, documentAssetMap, dirtyDocuments,
                          backend, accessToken, tokenExpiry, grantSeq>>]_vars

\* a pull was refused on a buffer that is open but bound to no asset
RefusedWitness ==
  /\ lastEvent.type = "pull"
  /\ lastEvent.result = "refused"
  /\ bufText[lastEvent.uri] # NoBuffer
  /\ ~MapHas(documentAssetMap, lastEvent.uri)
  /\ documentAssetMap # EmptyMap

\* a buffer that is open and has an entry in the binding map
IsBound(u) == bufText[u] # NoBuffer /\ MapHas(documentAssetMap, u)

\* C11: in every reachable state a bound buffer is in the dirty set if and
\* only if its text differs from the text that was last bound, pushed or
\* pulled with success, whatever the interleaving of change events with the
\* open, push and pull operations.
DirtyIffChangedSinceSync ==
  \A u \in Uris :
    IsBound(u) => (u \in dirtyDocuments <=> bufText[u] # lastSynced[u])

\* a push or a pull of a buffer that is still bound has just succeeded
SyncSucceeded(cont) ==
  /\ lastEvent.cont = cont
  /\ lastEvent.result = "returned"
  /\ lastEvent.type = IF cont = "push" THEN "httpResponse" ELSE "pull"
  /\ cont = "push" => lastEvent.ok
  /\ IsBound(lastEvent.uri)

\* C12: when a push or a pull has succeeded, the binding of the buffer holds
\* the record the backend returned for that operation and the buffer is not
\* in the dirty set.
SyncReplacesRecordAndClearsDirty ==
  \A cont \in {"push", "pull"} :
    SyncSucceeded(cont)
      => /\ documentAssetMap[lastEvent.uri] = lastEvent.value
         /\ lastEvent.uri \notin dirtyDocuments

\* C13: a buffer that has been closed (and not opened again) has no entry in
\* the binding map and is not in the dirty set, in every later state and
\* whatever push or pull was in flight for it when it closed.
ClosedBufferStaysUnbound ==
  \A u \in Uris :
    bufText[u] = NoBuffer
      => ~MapHas(documentAssetMap, u) /\ u \notin dirtyDocuments

\* C14: unbinding is idempotent: in every reachable state and for every
\* buffer, running the close handler twice yields the binding map and dirty
\* set that running it once yields, running it for a buffer that is neither
\* bound nor dirty changes nothing, and the state a close event leaves
\* behind is not changed by handling that close event again.
UnbindIdempotent ==
  /\ \A u \in Uris :
       LET same == [documentAssetMap |-> documentAssetMap,
                    dirtyDocuments |-> dirtyDocuments]
           once == onDidCloseTextDocument(documentAssetMap, dirtyDocuments, u)
           twice == onDidCloseTextDocument(once.documentAssetMap,
                                           once.dirtyDocuments, u) IN
       /\ twice = once
       /\ (~MapHas(documentAssetMap, u) /\ u \notin dirtyDocuments)
            => once = same
  /\ lastEvent.type = "close"
       => /\ ~MapHas(documentAssetMap, lastEvent.uri)
          /\ lastEvent.uri \notin dirtyDocuments
          /\ onDidCloseTextDocument(documentAssetMap, dirtyDocuments,
                                    lastEvent.uri)
               = [documentAssetMap |-> documentAssetMap,
                  dirtyDocuments |-> dirtyDocuments]

\* a bound and dirty buffer was closed while another buffer stays bound and
\* dirty
UnbindIdempotentWitness ==
  /\ lastEvent.type = "close"
  /\ lastEvent.flag
  /\ \E u \in Uris : IsBound(u) /\ u \in dirtyDocuments

\* the getChildren calls that have started their list call and have not
\* finished it
OutstandingLists ==
  {c \in Calls : call[c].cont = "tree" /\ call[c].phase # "idle"}

\* C15: at most one list call started by getChildren is outstanding at any
\* time; a root getChildren call made while one is outstanding returns an
\* empty result, starts no call, and leaves the outstanding one as it is.
AtMostOneListInFlight ==
  /\ Cardinality(OutstandingLists) <= 1
  /\ isLoading <=> OutstandingLists # {}
  /\ lastEvent.type = "getChildren"
       => /\ lastEvent.result = "returned"
          /\ lastEvent.children = <<>>
          /\ call[lastEvent.call].phase = "idle"
          /\ OutstandingLists # {}

\* getChildren answered with an empty result while the list request of the
\* other call was in flight for the second time
SecondGetChildrenEmptyWitness ==
  /\ lastEvent.type = "getChildren"
  /\ \E c \in OutstandingLists :
       call[c].phase = "awaitHttp" /\ call[c].sent = 2

\* the list request of getChildren has just been answered 2xx
Listed ==
  /\ lastEvent.type = "httpResponse"
  /\ lastEvent.cont = "tree"
  /\ lastEvent.ok

\* the sort key the specification names: the display name, the id where
\* there is none, without regard to case
ClaimedKey(a) ==
  IF a.name \in {Absent, ""} THEN toLowerCase(a.id) ELSE toLowerCase(a.name)

PositionIn(seq, a) == CHOOSE i \in 1..Len(seq) : seq[i] = a

\* children is a permutation of assets, ordered by ClaimedKey
PermutationOrderedByKey(assets, children) ==
  /\ Len(children) = Len(assets)
  /\ {children[i] : i \in 1..Len(children)} = {assets[i] : i \in 1..Len(assets)}
  /\ \A i, j \in 1..Len(children) :
       i < j => Rank(ClaimedKey(children[i])) <= Rank(ClaimedKey(children[j]))

\* records with equal keys stand in the order in which the backend sent them
TiesInBackendOrder(assets, children) ==
  \A i, j \in 1..Len(children) :
    (i < j /\ ClaimedKey(children[i]) = ClaimedKey(children[j]))
      => PositionIn(assets, children[i]) < PositionIn(assets, children[j])

\* records with equal keys stand in ascending order of their ids
TiesByIdAscending(children) ==
  \A i, j \in 1..Len(children) :
    (i < j /\ ClaimedKey(children[i]) = ClaimedKey(children[j]))
      => Rank(children[i].id) < Rank(children[j].id)

\* C16 as stated: the listing is a permutation of the records the backend
\* returned, ordered by case-insensitive display name (by id where a record
\* has no name), records with equal keys ordered by id ascending.
ListingSortedTiesById ==
  Listed => /\ PermutationOrderedByKey(lastEvent.assets, lastEvent.children)
            /\ TiesByIdAscending(lastEvent.children)

\* C16, amended: the listing is a permutation of the records the backend
\* returned, ordered by case-insensitive display name (by id where a record
\* has no name); records with equal keys stay in the order of the backend's
\* answer.
ListingSortedTiesAsReturned ==
  Listed => /\ PermutationOrderedByKey(lastEvent.assets, lastEvent.children)
            /\ TiesInBackendOrder(lastEvent.assets, lastEvent.children)

\* three records were listed: two whose names differ in case only, sent
\* with the greater id first, and one that is sorted by its id
ListingSortedWitness ==
  /\ Listed
  /\ lastEvent.assets = <<ContentAssetMetadata("c", Absent),
                          ContentAssetMetadata("b", "alpha"),
                          ContentAssetMetadata("a", "Alpha")>>
  /\ lastEvent.children = <<ContentAssetMetadata("b", "alpha"),
                            ContentAssetMetadata("a", "Alpha"),
                            ContentAssetMetadata("c", Absent)>>

\* the input of the specification's example
StableExampleInput ==
  <<ContentAssetMetadata("b", "Alpha"), ContentAssetMetadata("a", "alpha"),
    ContentAssetMetadata("c", Absent)>>

\* C17: the listing sort is stable: records whose case-insensitive keys are
\* equal keep the relative order of the backend's answer, and the answer
\* {b, Alpha}, {a, alpha}, {c, no name} is listed in the order b, a, c.
ListingSortStable ==
  Listed
    => /\ TiesInBackendOrder(lastEvent.assets, lastEvent.children)
       /\ lastEvent.assets = StableExampleInput
            => [i \in 1..Len(lastEvent.children) |-> lastEvent.children[i].id]
                 = <<"b", "a", "c">>

\* the example input was listed
StableExampleWitness ==
  /\ Listed
  /\ lastEvent.assets = StableExampleInput
  /\ Len(lastEvent.children) = 3

\* C18: the root getChildren call that follows refresh() starts a list call
\* (it does not answer without a network call), whatever the provider was
\* doing when refresh was invoked.
RefreshForcesListRequest ==
  [][(refreshed /\ ~refreshed')
       => \E c \in Calls : /\ call[c].phase = "idle"
                           /\ call'[c].cont = "tree"
                           /\ call'[c].phase # "idle"]_vars

\* C19: when a pull has succeeded and the very next step is a push of the
\* same buffer (no edit in between), the push starts exactly one PATCH call
\* whose c_body equals the body of the record just pulled, so that applying
\* it leaves the backend's body as it is; this for every body the backend
\* may hold, an absent one included.
PullThenPushRoundTrip ==
  [][(/\ lastEvent.type = "pull"
      /\ lastEvent.result = "returned"
      /\ lastEvent'.type = "getAccessToken"
      /\ lastEvent'.cont = "push"
      /\ lastEvent'.step = "invoke"
      /\ lastEvent'.uri = lastEvent.uri)
     => /\ \A c \in Calls : call'[c] # call[c] => call'[c].op = "patch"
        /\ lastEvent'.payload = [c_body |-> lastEvent.value.c_body]
        /\ ApplyPayload(backend[lastEvent'.id], lastEvent'.payload)
             = backend[lastEvent'.id]]_vars

\* every required field is present and the hostname carries no protocol
IsValidConfig(cfg) ==
  /\ ~cfg.isNull
  /\ cfg.hostname # NoHostname
  /\ cfg.username # "" /\ cfg.password # ""
  /\ cfg.clientId # "" /\ cfg.clientSecret # ""
  /\ cfg.contentLibrary # ""
  /\ ~includes(cfg.hostname, "://")

\* C20: after any sequence of loadConfig and reloadConfig calls, of either
\* version of ConfigService, the configuration getConfig() returns has passed
\* validation, isConfigLoaded() is true only when such a configuration is
\* held, and a load that has just thrown leaves no invalid configuration
\* behind.
OnlyValidatedConfigHeld ==
  \A cfg \in {config, dwConfig} :
    /\ isConfigLoaded(cfg) => IsValidConfig(cfg)
    /\ ~getConfig(cfg).thrown => IsValidConfig(getConfig(cfg).config)

(***************************************************************************)
(* C21: every attempt of a data operation, retries included, is sent with  *)
(* the header Authorization: Bearer <t>, t being the token getAccessToken  *)
(* returned for that very attempt; when the token cannot be obtained the    *)
(* attempt sends no data request at all.                                   *)
(***************************************************************************)
\* the step just taken sent a data request
AttemptSent ==
  /\ lastEvent.result = "pending"
  /\ \/ lastEvent.type = "getAccessToken" /\ lastEvent.hit
     \/ lastEvent.type = "grantResponse"

\* getAccessToken of the step just taken failed inside a data operation
TokenAcquisitionFailed ==
  /\ lastEvent.type = "grantResponse"
  /\ lastEvent.failure = "grant"
  /\ lastEvent.op \in DataOps

BearerTokenOnEveryAttempt ==
  /\ \A c \in Calls :
       call[c].phase = "awaitHttp" =>
         /\ call[c].token # NullToken
         /\ call[c].authorization = <<"Bearer", call[c].token>>
  /\ AttemptSent =>
       LET cr == call[lastEvent.call] IN
       /\ cr.phase = "awaitHttp"
       /\ lastEvent.token = accessToken
       /\ cr.authorization = <<"Bearer", lastEvent.token>>
  /\ TokenAcquisitionFailed =>
       /\ call[lastEvent.call].phase = "idle"
       /\ lastEvent.sent = lastEvent.retryCount

\* an attempt is counted as sent only by a step in which getAccessToken
\* returned a token
NoRequestWithoutToken ==
  [][\A c \in Calls :
       (call'[c].sent > call[c].sent) =>
         /\ lastEvent'.call = c
         /\ lastEvent'.token # NullToken
         /\ call'[c].sent = call[c].sent + 1
         /\ call'[c].authorization = <<"Bearer", lastEvent'.token>>]_vars

BearerTokenPerAttempt == []BearerTokenOnEveryAttempt /\ NoRequestWithoutToken

\* a retry whose token came from a grant of its own
RetryWithOwnTokenWitness ==
  /\ AttemptSent
  /\ lastEvent.type = "grantResponse"
  /\ lastEvent.retryCount = 1
  /\ lastEvent.sent = 2
  /\ lastEvent.token = 2

(***************************************************************************)
(* C22: the token manager never retries: a getAccessToken call posts at    *)
(* most one grant request, and when that grant fails the failure reaches   *)
(* the caller (the data operation, when the call came from its             *)
(* interceptor) with no second grant request posted for it.                *)
(***************************************************************************)
\* the grant of the step just taken failed
GrantFailed == lastEvent.type = "grantResponse" /\ lastEvent.failure = "grant"

\* the failure of the step just taken reached the caller of getAccessToken:
\* AuthService.testConnection answers it with false, everyone else throws
SurfacedToCaller ==
  IF lastEvent.op = "authTestConnection"
    THEN lastEvent.result = "returned" /\ ~lastEvent.flag
    ELSE lastEvent.result = "thrown" /\ lastEvent.error # NoError

GrantAnsweredOnce ==
  /\ lastEvent.type = "grantResponse" =>
       call[lastEvent.call].phase # "awaitGrant"
  /\ GrantFailed =>
       /\ call[lastEvent.call].phase = "idle"
       /\ SurfacedToCaller

\* a grant request is posted only by the step of a getAccessToken call that
\* missed the cache, and its answer ends the wait
OneGrantPerGetAccessToken ==
  [][\A c \in Calls :
       /\ (call'[c].phase = "awaitGrant" /\ call[c].phase # "awaitGrant") =>
            /\ lastEvent'.type = "getAccessToken"
            /\ lastEvent'.call = c
            /\ lastEvent'.granted
       /\ (call[c].phase = "awaitGrant" /\ lastEvent'.type = "grantResponse"
             /\ lastEvent'.call = c) =>
            call'[c].phase \in {"idle", "awaitHttp"}]_vars

TokenManagerNeverRetries == []GrantAnsweredOnce /\ OneGrantPerGetAccessToken

\* a grant that failed for the retry of a data operation
GrantFailureInsideRetryWitness ==
  /\ GrantFailed
  /\ lastEvent.op = "get"
  /\ lastEvent.retryCount = 1
  /\ lastEvent.result = "thrown"
  /\ call[lastEvent.call].phase = "idle"

(***************************************************************************)
(* C23: whatever way getAccessToken refreshes and clearToken calls         *)
(* interleave, the cached token and the cached expiry are both absent or   *)
(* both come from one and the same grant response; when two refreshes      *)
(* race, each answer leaves its own token with its own expiry.             *)
(***************************************************************************)
CachePairFromOneGrant ==
  /\ \/ /\ accessToken = NullToken
        /\ tokenExpiry = NullExpiry
        /\ expiryGrant = NoGrant
     \/ /\ accessToken # NullToken
        /\ tokenExpiry # NullExpiry
        /\ expiryGrant.id = accessToken
  /\ (lastEvent.type = "grantResponse" /\ lastEvent.failure = "none") =>
       /\ accessToken = lastEvent.token
       /\ expiryGrant.id = lastEvent.token

\* two refreshes race: the first grant has been answered and fills the cache
\* while the second is still in flight
RacingRefreshWitness ==
  /\ lastEvent.type = "grantResponse"
  /\ lastEvent.failure = "none"
  /\ lastEvent.call = "c2"
  /\ call["c1"].phase = "awaitGrant"
  /\ CachePairFromOneGrant

(***************************************************************************)
(* C24: for every configuration with host h and library L, list sends a    *)
(* GET to https://h/<versioned base path>/libraries/L/content selecting    *)
(* (id,name,description,online,template,last_modified), get(id) sends a   *)
(* GET to .../libraries/L/content/<id> selecting (**), and list returns    *)
(* the data array of the answer, or an empty array when it has none.       *)
(***************************************************************************)
\* the version segment of the base path: the configured one, v23_2 without
ClaimedVersion == IF config.version = "" THEN "v23_2" ELSE config.version

ClaimedBase ==
  <<"https://", config.hostname[1], "/s/-/dw/data/", ClaimedVersion>>

ListAndGetRequests ==
  /\ (AttemptSent /\ lastEvent.op = "list") =>
       /\ lastEvent.method = "get"
       /\ lastEvent.url =
            ClaimedBase \o <<"/libraries/", config.contentLibrary, "/content">>
       /\ lastEvent.params.select =
            "(id,name,description,online,template,last_modified)"
  /\ (AttemptSent /\ lastEvent.op = "get") =>
       /\ lastEvent.method = "get"
       /\ lastEvent.url =
            ClaimedBase \o <<"/libraries/", config.contentLibrary, "/content/",
                             lastEvent.id>>
       /\ lastEvent.params = [select |-> "(**)"]
  /\ (lastEvent.type = "httpResponse" /\ lastEvent.op = "list" /\ lastEvent.ok) =>
       lastEvent.children = IF lastEvent.flag THEN lastEvent.assets ELSE <<>>

\* the example configuration lists its library, and an answer without data
\* field is returned as the empty array
ListRequestWitness ==
  /\ AttemptSent
  /\ lastEvent.op = "list"
  /\ lastEvent.url = <<"https://", "dev01-x.demandware.net", "/s/-/dw/data/",
                       "v23_2", "/libraries/", "shared_library", "/content">>
  /\ config.version = ""

(***************************************************************************)
(* C25: a successful open of record id creates a new buffer holding the    *)
(* fetched body (the empty string when the record has none), binds it to   *)
(* the fetched record and leaves it clean; a failed open binds nothing and *)
(* leaves the binding map and the dirty set as they were.                  *)
(***************************************************************************)
OpenSucceeded(ev) ==
  ev.type = "httpResponse" /\ ev.cont = "open" /\ ev.ok

OpenFailed(ev) ==
  ev.type \in {"httpResponse", "grantResponse"} /\ ev.cont = "open"
  /\ ev.failure # "none"

OpenBindsNewCleanBuffer ==
  [][/\ OpenSucceeded(lastEvent') =>
         \E u \in Uris :
           /\ bufText[u] = NoBuffer
           /\ lastEvent'.value.id = lastEvent'.id
           /\ bufText'[u] = IF lastEvent'.value.c_body = Absent
                               THEN "" ELSE lastEvent'.value.c_body
           /\ MapHas(documentAssetMap', u)
           /\ documentAssetMap'[u] = lastEvent'.value
           /\ u \notin dirtyDocuments'
           /\ \A v \in Uris \ {u} :
                /\ bufText'[v] = bufText[v]
                /\ MapHas(documentAssetMap', v) = MapHas(documentAssetMap, v)
                /\ MapGet(documentAssetMap', v) = MapGet(documentAssetMap, v)
                /\ (v \in dirtyDocuments') = (v \in dirtyDocuments)
     /\ OpenFailed(lastEvent') =>
         UNCHANGED <<bufText, documentAssetMap, dirtyDocuments>>]_vars

\* a record without body has been opened into the empty, bound, clean buffer
\* u2 next to a dirty buffer u1
OpenedEmptyBodyWitness ==
  /\ OpenSucceeded(lastEvent)
  /\ lastEvent.value.c_body = Absent
  /\ bufText["u2"] = ""
  /\ MapGet(documentAssetMap, "u2") = lastEvent.value
  /\ dirtyDocuments = {"u1"}

\* an open has failed while a bound buffer exists
OpenFailedWitness ==
  /\ OpenFailed(lastEvent)
  /\ MapHas(documentAssetMap, "u1")

(***************************************************************************)
(* C26: while a push or pull of a buffer is suspended on its request, a    *)
(* second push or pull of the same buffer is rejected as Busy and sends no *)
(* request, so that at most one sync operation per buffer is in flight.    *)
(***************************************************************************)
\* the pushes and pulls of buffer u that have started and not yet ended
SyncsInFlight(u) ==
  {c \in Calls : /\ call[c].cont \in {"push", "pull"}
                 /\ call[c].uri = u
                 /\ call[c].phase \in {"awaitGrant", "awaitHttp", "awaitEdit"}}

AtMostOneSyncPerBuffer ==
  \A u \in Uris : Cardinality(SyncsInFlight(u)) <= 1

(***************************************************************************)
(* C27: a token granted at t0 with lifetime expires_in is stored with the  *)
(* expiry t0 + (expires_in - 60) and is served from the cache only while   *)
(* now < t0 + (expires_in - 120); so no cached token is returned within    *)
(* 60 seconds of its real expiry t0 + expires_in, and a grant with         *)
(* expires_in <= 120 is never reused.                                      *)
(***************************************************************************)
\* the step just taken was a getAccessToken, answered from the cache or not
TokenAsked == lastEvent.type = "getAccessToken"
ServedFromCache == TokenAsked /\ lastEvent.hit

ExpiryArithmetic ==
  /\ accessToken # NullToken =>
       tokenExpiry = expiryGrant.t0 + (expiryGrant.expires_in - 60)
  /\ ServedFromCache =>
       /\ lastEvent.token = expiryGrant.id
       /\ now < expiryGrant.t0 + (expiryGrant.expires_in - 120)
       /\ (expiryGrant.t0 + expiryGrant.expires_in) - now > 60
       /\ expiryGrant.expires_in > 120
  /\ (TokenAsked /\ accessToken # NullToken
        /\ now >= expiryGrant.t0 + (expiryGrant.expires_in - 120)) =>
       ~lastEvent.hit

\* the last moment a token of 300 seconds granted at 0 is served from cache
LastReuseWitness ==
  /\ ServedFromCache
  /\ expiryGrant.t0 = 0
  /\ expiryGrant.expires_in = 300
  /\ now = 120

(***************************************************************************)
(* C28: provided every data request and every grant request is answered    *)
(* or timed out, each invocation of a data operation ends with a result or *)
(* an error: it sends no more attempts than the retry limit allows and     *)
(* never waits forever.                                                    *)
(***************************************************************************)
InFlight(c) == call[c].phase # "idle"

AttemptsBounded == \A c \in Calls : call[c].sent <= Retries + 1

EndsWithResultOrError ==
  [][\A c \in Calls :
       (InFlight(c) /\ call'[c].phase = "idle") =>
         /\ lastEvent'.call = c
         /\ lastEvent'.result \in {"returned", "thrown"}]_vars

EveryOperationCompletes ==
  /\ []AttemptsBounded
  /\ EndsWithResultOrError
  /\ \A c \in Calls : InFlight(c) ~> ~InFlight(c)

\* an operation that went through every retry has ended
CompletedAfterAllRetriesWitness ==
  /\ lastEvent.type = "httpResponse"
  /\ lastEvent.op \in DataOps
  /\ lastEvent.sent = Retries + 1
  /\ lastEvent.result = "thrown"
  /\ ~InFlight(lastEvent.call)

(***************************************************************************)
(* C29: a push that fails leaves the buffer's binding and its dirty flag   *)
(* as they were before the push; a pull that fails leaves the buffer's     *)
(* text, the record bound to it and its dirty flag as they were before     *)
(* the pull.                                                               *)
(***************************************************************************)
\* the step just taken belongs to a push or pull that has not succeeded: its
\* start, its token request, or its failure
UnfinishedSyncStep(ev) ==
  /\ ev.cont \in {"push", "pull"}
  /\ ev.type \in {"getAccessToken", "grantResponse", "httpResponse"}
  /\ ~ev.ok

SyncFailed(ev, cont) ==
  /\ ev.cont = cont
  /\ ev.type \in {"grantResponse", "httpResponse"}
  /\ ev.failure # "none"

FailedSyncChangesNothing ==
  [][/\ UnfinishedSyncStep(lastEvent') =>
         UNCHANGED <<bufText, documentAssetMap, dirtyDocuments>>
     /\ SyncFailed(lastEvent', "push") =>
         LET u == lastEvent'.uri IN
         /\ MapHas(documentAssetMap', u) = MapHas(documentAssetMap, u)
         /\ MapGet(documentAssetMap', u) = MapGet(documentAssetMap, u)
         /\ (u \in dirtyDocuments') = (u \in dirtyDocuments)
     /\ SyncFailed(lastEvent', "pull") =>
         LET u == lastEvent'.uri IN
         /\ bufText'[u] = bufText[u]
         /\ MapGet(documentAssetMap', u) = MapGet(documentAssetMap, u)
         /\ (u \in dirtyDocuments') = (u \in dirtyDocuments)]_vars

\* the pull of an edited buffer has failed: the buffer is still dirty and
\* still holds the user's text
FailedPullOfDirtyBufferWitness ==
  /\ SyncFailed(lastEvent, "pull")
  /\ lastEvent.failure = "http"
  /\ lastEvent.uri \in dirtyDocuments
  /\ MapHas(documentAssetMap, lastEvent.uri)
  /\ bufText[lastEvent.uri] # BodyOrEmpty(MapGet(documentAssetMap, lastEvent.uri))

(***************************************************************************)
(* C30: in every reachable state the dirty set is a subset of the bound    *)
(* buffers: a buffer id is in dirtyDocuments only if documentAssetMap has  *)
(* an entry for it, however open, change, close, push and pull interleave. *)
(***************************************************************************)
DirtyOnlyIfBound == \A u \in dirtyDocuments : MapHas(documentAssetMap, u)

\* an unbound buffer has just been edited while a bound one is dirty
UnboundEditedWitness ==
  /\ lastEvent.type = "change"
  /\ ~MapHas(documentAssetMap, lastEvent.uri)
  /\ dirtyDocuments # {}
  /\ lastEvent.uri \notin dirtyDocuments

(***************************************************************************)
(* C31: the in-flight flag of the listing is set only by the getChildren   *)
(* call that sends the list request and is cleared exactly when that call  *)
(* ends, with a listing or with a failure; a call turned away because a    *)
(* load was outstanding never clears it. So once the outstanding load has  *)
(* ended, the next root getChildren call sends a request, and the listing  *)
(* is never blocked for ever.                                              *)
(***************************************************************************)
\* the step just taken was a root getChildren call that was turned away
TurnedAway(ev) == ev.type = "getChildren"

\* the step just taken was a root getChildren call that sent for the listing
ListIssued(ev) ==
  ev.type = "getAccessToken" /\ ev.cont = "tree" /\ ev.step = "invoke"

FlagSetByIssuerClearedAtItsEnd ==
  [][/\ (~isLoading /\ isLoading') =>
         /\ ListIssued(lastEvent')
         /\ call[lastEvent'.call].phase = "idle"
         /\ call'[lastEvent'.call].cont = "tree"
         /\ call'[lastEvent'.call].phase # "idle"
     /\ (isLoading /\ ~isLoading') =>
         /\ lastEvent'.type \in {"httpResponse", "grantResponse"}
         /\ lastEvent'.call \in OutstandingLists
         /\ call'[lastEvent'.call].phase = "idle"
     /\ \A c \in OutstandingLists : call'[c].phase = "idle" => ~isLoading'
     /\ TurnedAway(lastEvent') => isLoading /\ isLoading'
     /\ (OutstandingLists = {} /\ lastEvent'.cont = "tree"
          /\ lastEvent'.step \in {"-", "invoke"}
          /\ lastEvent'.type \in {"getChildren", "getAccessToken"}) =>
         /\ ListIssued(lastEvent')
         /\ call'[lastEvent'.call].phase # "idle"]_vars

ListingFlagTracksItsCall ==
  /\ [](isLoading <=> OutstandingLists # {})
  /\ FlagSetByIssuerClearedAtItsEnd
  /\ isLoading ~> ~isLoading

\* the load that went through every retry has failed and the flag is clear
FlagClearedAfterFailureWitness ==
  /\ lastEvent.type = "httpResponse"
  /\ lastEvent.cont = "tree"
  /\ lastEvent.failure = "http"
  /\ lastEvent.sent = Retries + 1
  /\ ~isLoading

(***************************************************************************)
(* C32: a failed grant request leaves the cached token and expiry exactly  *)
(* as they were; nothing but a successful grant or clearToken ever changes *)
(* them.                                                                   *)
(***************************************************************************)
CachedPair == <<accessToken, tokenExpiry>>

CacheChangedOnlyByGrantOrClear ==
  [][/\ (lastEvent'.type = "grantResponse" /\ lastEvent'.failure = "grant") =>
         CachedPair' = CachedPair
     /\ CachedPair' # CachedPair =>
         \/ /\ lastEvent'.type = "grantResponse"
            /\ lastEvent'.failure = "none"
            /\ accessToken' = lastEvent'.token
         \/ /\ \/ lastEvent'.type = "clearToken"
               \/ /\ lastEvent'.type = "httpResponse"
                  /\ lastEvent'.input.status = 401
            /\ CachedPair' = <<NullToken, NullExpiry>>]_vars

\* a grant has failed while the cache holds an earlier token
GrantFailedOverCachedTokenWitness ==
  /\ lastEvent.type = "grantResponse"
  /\ lastEvent.failure = "grant"
  /\ accessToken = 1
  /\ tokenExpiry # NullExpiry

(***************************************************************************)
(* C33: a 401 answer to a data request sent with token T clears the cache  *)
(* only while the cached token is still T; when a newer token has been     *)
(* granted and cached in the meantime, the late 401 leaves it in place.    *)
(***************************************************************************)
\* the step just taken ended a data operation on a 401 answer
Ended401(ev) ==
  /\ ev.type = "httpResponse"
  /\ ev.failure = "http"
  /\ ev.input.response
  /\ ev.input.status = 401

GrantFailureKindKeptByDataOperation ==
  (/\ lastEvent.type = "grantResponse"
   /\ lastEvent.failure = "grant"
   /\ lastEvent.op \in DataOps)
  => /\ lastEvent.result = "thrown"
     /\ lastEvent.error.kind = handleAuthError(lastEvent.input).kind
     /\ lastEvent.error.kind # "UnknownOperationError"

(***************************************************************************)
(* C35: a pull on a dirty buffer issues the GET and overwrites the buffer  *)
(* only after the user answers 'Pull Anyway'; when the user declines, no   *)
(* request is issued and buffer text, binding and dirty mark are           *)
(* unchanged.  A pull on a clean buffer asks for no confirmation.          *)
(***************************************************************************)
\* the step just taken invoked pull on a bound buffer
PullInvoked(ev) ==
  /\ ev.cont = "pull"
  /\ ev.step = "invoke"
  /\ ev.type \in {"pull", "getAccessToken"}

\* the step just taken was the user's answer to the overwrite warning
PullAnswered(ev) == ev.cont = "pull" /\ ev.step \in PullAnswers

\* call c has a grant or data request in flight
RequestIssued(cr) == cr.phase \in {"awaitGrant", "awaitHttp"}

DirtyPullNeedsConfirmation ==
  [][/\ (PullInvoked(lastEvent') /\ lastEvent'.uri \in dirtyDocuments) =>
          /\ call'[lastEvent'.call].phase = "awaitConfirm"
          /\ lastEvent'.sent = 0
          /\ syncVars' = syncVars
     /\ (PullInvoked(lastEvent') /\ lastEvent'.uri \notin dirtyDocuments) =>
          RequestIssued(call'[lastEvent'.call])
     /\ PullAnswered(lastEvent') =>
          /\ call[lastEvent'.call].phase = "awaitConfirm"
          /\ IF lastEvent'.step = "Pull Anyway"
               THEN RequestIssued(call'[lastEvent'.call])
               ELSE /\ call'[lastEvent'.call] = IdleCall
                    /\ lastEvent'.sent = 0
                    /\ lastEvent'.result = "cancelled"
                    /\ syncVars' = syncVars
                    /\ authVars' = authVars
     /\ \A c \in Calls :
          (call[c].phase = "awaitConfirm" /\ call'[c].phase # "awaitConfirm") =>
            (PullAnswered(lastEvent') /\ lastEvent'.call = c)]_vars

\* the user declined the overwrite of a dirty bound buffer
PullDeclinedWitness ==
  /\ lastEvent.cont = "pull"
  /\ lastEvent.step \in {"Cancel", Dismissed}
  /\ lastEvent.result = "cancelled"
  /\ lastEvent.uri \in dirtyDocuments
  /\ MapHas(documentAssetMap, lastEvent.uri)

(***************************************************************************)
(* C36: credential storage is all-or-nothing and round-trips: after        *)
(* storeCredentials(c) with every field non-empty getCredentials returns c *)
(* and hasCredentials is true; after clearCredentials getCredentials       *)
(* returns null and hasCredentials is false; getCredentials returns null   *)
(* whenever a required secret is missing or empty, never a partial record. *)
(***************************************************************************)
\* getCredentials or hasCredentials has just returned
CredentialsRead ==
  /\ lastEvent.type = "credentialReturn"
  /\ lastEvent.op \in {"getCredentials", "hasCredentials"}

\* every field of the credentials is a non-empty string
Complete(credentials) ==
  \A k \in DOMAIN credentials : ~Falsy(credentials[k])

CredentialsAllOrNothing ==
  CredentialsRead =>
    LET keys == credentialService.KEYS
        stored == StoredSecrets(configEnv.secrets, keys)
        settled == credentialService.settled IN
    /\ \/ lastEvent.credentials = NoCredentials
       \/ /\ DOMAIN lastEvent.credentials = KeySet(keys)
          /\ Complete(lastEvent.credentials)
    /\ lastEvent.flag = (lastEvent.credentials # NoCredentials)
    /\ lastEvent.quiet =>
         /\ lastEvent.credentials =
              IF Complete(stored) THEN stored ELSE NoCredentials
         /\ settled.kind = "stored" =>
              lastEvent.credentials =
                IF Complete(settled.credentials) THEN settled.credentials
                ELSE NoCredentials
         /\ settled.kind = "cleared" =>
              (lastEvent.credentials = NoCredentials /\ ~lastEvent.flag)

\* getCredentials returned the credentials the last storeCredentials stored
StoredCredentialsReadBackWitness ==
  /\ CredentialsRead
  /\ lastEvent.op = "getCredentials"
  /\ lastEvent.quiet
  /\ credentialService.settled.kind = "stored"
  /\ Complete(credentialService.settled.credentials)
  /\ lastEvent.credentials = credentialService.settled.credentials

====
